---- MODULE Spec2Model ----
(***************************************************************************)
(* Verification model of the request-tracing middleware stack, the         *)
(* context-variable backed logger and the JWT authentication helpers of    *)
(* the FastAPI backend.                                                    *)
(*                                                                         *)
(* Spec      : the middleware pipeline (app/middlewares, app/utils/logger, *)
(*             app/utils/tracing) for NumRequests interleaved requests.    *)
(* SpecAuth  : create_access_token / decode_token / get_current_user       *)
(*             (app/utils/auth.py) over a clock, a token and a user store. *)
(* SpecApi   : the routes of app/controllers, one request at a time.       *)
(* SpecRace  : user creation with requests in flight side by side.         *)
(* SpecLive  : Spec with every started request running to its end.         *)
(* SpecTrace : Spec entered with request.state.request_id already set.     *)
(* SpecJobs  : the process_data task and the scheduler of app/jobs.        *)
(* SpecSession : clients presenting the tokens they were handed.           *)
(***************************************************************************)
EXTENDS Integers, FiniteSets, Sequences, TLC

VARIABLES
    \* ---- middleware pipeline (one asyncio task chain per request) ----
    loc,        \* component that currently holds the request
    phase,      \* position inside that component
    hdr,        \* inbound X-Request-ID header of the request
    stateRid,   \* request.state.request_id
    ctx,        \* request_id_var as seen in the request's execution context
    rid,        \* local variable request_id of LoggingMiddleware.dispatch
    ctxBranch,  \* branch RequestContextMiddleware.dispatch took
    resp,       \* response object travelling up the stack
    exc,        \* exception travelling up the stack
    raised,     \* exception the route handler raised, if it did
    log,        \* records accepted by the logger sink
    nextId,     \* number of ids generate_request_id has produced so far
    \* ---- authentication helpers ----
    now,        \* clock, in ticks of 1/TicksPerSec second
    tok,        \* the bearer token presented by the client
    issue,      \* how tok was issued (call arguments of create_access_token)
    store,      \* rows of the users table
    authRes,    \* outcome of the authentication call made at the current instant
    \* ---- HTTP API: users, authentication and upload controllers ----
    objects,    \* keys of the objects held by the S3 bucket
    nextKey,    \* number of keys generate_unique_filename has produced so far
    pending,    \* update_user requests between their permission check and their commit
    apiRes,     \* the request served last, with its response and its effects
    issued,     \* the tokens handed out so far, each with the id of the row it was made for
    \* ---- background jobs ----
    tasks,      \* the process_data tasks sent to the Celery queue
    sched       \* the APScheduler instance of app/jobs/scheduler.py and its job store

mwVars   == <<loc, phase, hdr, stateRid, ctx, rid, ctxBranch, resp, exc, raised, log, nextId>>
authVars == <<now, tok, issue, store, authRes>>
apiVars  == <<objects, nextKey, pending, apiRes, issued>>
jobVars  == <<tasks, sched>>
vars     == <<mwVars, authVars, apiVars, jobVars>>

(***************************************************************************)
(* Bounds                                                                  *)
(***************************************************************************)
NumRequests == 2
Requests    == 1..NumRequests

(***************************************************************************)
(* Python values                                                           *)
(***************************************************************************)
None     == "<None>"
IsTruthy(x) == x \notin {None, ""}

(***************************************************************************)
(* app/utils/logger.py                                                     *)
(***************************************************************************)
NoRequestId == "no-request-id"
LOG_LEVEL   == "INFO"

\* loguru severity order of the levels used by the code
LevelNo(l) == CASE l = "DEBUG"   -> 1
                [] l = "INFO"    -> 2
                [] l = "WARNING" -> 3
                [] l = "ERROR"   -> 4

\* variant: one slot for the whole process
SetRequestIdGlobal(c, task, id_value) ==
    IF IsTruthy(id_value) THEN [t \in DOMAIN c |-> id_value] ELSE c

\* variant: the slot is never written
SetRequestIdNever(c, task, id_value) == c

\* request_id_var.set(id_value): a ContextVar, written in the calling task's
\* context only (a task started later by that task inherits a copy), and only
\* for a truthy value
SetRequestId(c, task, id_value) ==
    IF IsTruthy(id_value) THEN [c EXCEPT ![task] = id_value] ELSE c

GetRequestId(c, task) == c[task]

\* logger.bind(context=name, request_id=get_request_id() or "no-request-id"):
\* the id is read once, when the logger object is made
GetLogger(name, current) ==
    [context |-> name,
     request_id |-> IF IsTruthy(current) THEN current ELSE NoRequestId]

\* A logger made at import time, outside any request: the slot holds its default
ModuleLogger(name) == GetLogger(name, None)

\* One record handed to the sinks; req attributes the line to the request whose
\* call chain emitted it
LogRec(r, lg, level, event) ==
    [req |-> r, context |-> lg.context, request_id |-> lg.request_id,
     level |-> level, event |-> event]

\* sinks are added with level=settings.LOG_LEVEL
Emit(lg, rec) ==
    IF LevelNo(rec.level) >= LevelNo(LOG_LEVEL) THEN lg \cup {rec} ELSE lg

(***************************************************************************)
(* app/utils/tracing.py                                                    *)
(***************************************************************************)
\* str(uuid.uuid4()): the n-th id produced, distinct from every other one
GenerateRequestId(n) == "uuid-" \o ToString(n)

\* variant: the inbound header is not consulted
ResolveIgnoringHeader(h, st, fresh) ==
    IF IsTruthy(st) THEN st ELSE fresh

\* variant: request.state is not consulted
ResolveIgnoringState(h, st, fresh) ==
    IF IsTruthy(h) THEN h ELSE fresh

\* set_trace_context_from_request: the header, else request.state, else a new
\* id; `if not request_id` treats an empty header like a missing one
ResolveRequestId(h, st, fresh) ==
    IF IsTruthy(h) THEN h
    ELSE IF IsTruthy(st) THEN st
    ELSE fresh

NeedsFresh(h, st) == ~IsTruthy(h) /\ ~IsTruthy(st)

\* variant: the trace header is not written
AddTraceHeadersNone(response, request_id) == response

\* response.headers["X-Request-ID"] = request_id
AddTraceHeadersToResponse(response, request_id) ==
    [response EXCEPT !.xrid = request_id]

(***************************************************************************)
(* app/config/middlewares.py: order of the add_middleware calls.  Each     *)
(* call puts the class in front of the ones added before, so the class     *)
(* added last is the outermost layer.                                      *)
(***************************************************************************)
AddOrder == <<"cors", "logging", "context">>

\* outermost first, the route handler innermost
Stack == [i \in 1..(Len(AddOrder) + 1) |->
            IF i <= Len(AddOrder) THEN AddOrder[Len(AddOrder) + 1 - i] ELSE "handler"]

\* CORSMiddleware passes requests without an Origin header through untouched
Modelled(c) == c # "cors"

Index(c) == CHOOSE i \in DOMAIN Stack : Stack[i] = c

First == Stack[CHOOSE i \in DOMAIN Stack :
                 /\ Modelled(Stack[i])
                 /\ \A j \in DOMAIN Stack : j < i => ~Modelled(Stack[j])]

\* the layer call_next(request) of c runs
Below(c) == Stack[CHOOSE i \in DOMAIN Stack :
                 /\ i > Index(c) /\ Modelled(Stack[i])
                 /\ \A j \in DOMAIN Stack : (j > Index(c) /\ j < i) => ~Modelled(Stack[j])]

\* the layer c returns or raises to
Above(c) ==
    IF \E i \in DOMAIN Stack : i < Index(c) /\ Modelled(Stack[i])
    THEN Stack[CHOOSE i \in DOMAIN Stack :
                 /\ i < Index(c) /\ Modelled(Stack[i])
                 /\ \A j \in DOMAIN Stack : (j < Index(c) /\ j > i) => ~Modelled(Stack[j])]
    ELSE "client"

NoResponse == [status |-> 0, xrid |-> None, xptime |-> FALSE]

Headers  == {None, "", "abc-123", "req-B"}
Errors   == {"RuntimeError"}

At(r, c, p) == loc[r] = c /\ phase[r] = p

Return(r, c, ok) ==
    /\ loc' = [loc EXCEPT ![r] = Above(c)]
    /\ phase' = [phase EXCEPT ![r] =
                    IF Above(c) = "client"
                    THEN (IF ok THEN "done" ELSE "failed")
                    ELSE (IF ok THEN "ok" ELSE "exc")]

CallNext(r, c) ==
    /\ loc' = [loc EXCEPT ![r] = Below(c)]
    /\ phase' = [phase EXCEPT ![r] = "enter"]

(***************************************************************************)
(* Actions of the middleware pipeline                                      *)
(***************************************************************************)
\* the server accepts a request and starts its task at the outermost layer
Receive(r, h) ==
    /\ At(r, "client", "idle")
    /\ hdr' = [hdr EXCEPT ![r] = h]
    /\ loc' = [loc EXCEPT ![r] = First]
    /\ phase' = [phase EXCEPT ![r] = "enter"]
    /\ UNCHANGED <<stateRid, ctx, rid, ctxBranch, resp, exc, raised, log, nextId, authVars, apiVars, jobVars>>

\* RequestContextMiddleware.dispatch up to its await call_next(request)
ContextEnter(r) ==
    /\ At(r, "context", "enter")
    /\ LET request_id == stateRid[r] IN
         IF IsTruthy(request_id)
         THEN /\ ctx' = SetRequestId(ctx, r, request_id)
              /\ log' = Emit(log, LogRec(r, GetLogger("context", ctx'[r]), "DEBUG", "set-context"))
              /\ ctxBranch' = [ctxBranch EXCEPT ![r] = "has_id"]
         ELSE /\ ctx' = ctx
              /\ log' = Emit(log, LogRec(r, ModuleLogger("context-middleware"), "WARNING", "no-request-id"))
              /\ ctxBranch' = [ctxBranch EXCEPT ![r] = "no_id"]
    /\ CallNext(r, "context")
    /\ UNCHANGED <<hdr, stateRid, rid, resp, exc, raised, nextId, authVars, apiVars, jobVars>>

\* RequestContextMiddleware.dispatch resumed with the response
ContextCompleted(r) ==
    /\ At(r, "context", "ok")
    /\ Return(r, "context", TRUE)
    /\ UNCHANGED <<hdr, stateRid, ctx, rid, ctxBranch, resp, exc, raised, log, nextId, authVars, apiVars, jobVars>>

\* RequestContextMiddleware.dispatch resumed with an exception: the branch with
\* an id logs and re-raises, the other branch has no handler at all
ContextFailed(r) ==
    /\ At(r, "context", "exc")
    /\ log' = IF ctxBranch[r] = "has_id"
              THEN Emit(log, LogRec(r, GetLogger("context", stateRid[r]), "ERROR", "error"))
              ELSE log
    /\ Return(r, "context", FALSE)
    /\ UNCHANGED <<hdr, stateRid, ctx, rid, ctxBranch, resp, exc, raised, nextId, authVars, apiVars, jobVars>>

\* LoggingMiddleware.dispatch up to its await call_next(request):
\* set_trace_context_from_request, get_trace_logger("http"), the request line
LoggingEnter(r) ==
    /\ At(r, "logging", "enter")
    /\ LET request_id == ResolveRequestId(hdr[r], stateRid[r], GenerateRequestId(nextId + 1)) IN
         /\ nextId' = IF NeedsFresh(hdr[r], stateRid[r]) THEN nextId + 1 ELSE nextId
         /\ stateRid' = [stateRid EXCEPT ![r] = request_id]
         /\ ctx' = SetRequestId(ctx, r, request_id)
         /\ rid' = [rid EXCEPT ![r] = request_id]
         /\ log' = Emit(log, LogRec(r, GetLogger("http", GetRequestId(ctx', r)), "INFO", "request"))
    /\ CallNext(r, "logging")
    /\ UNCHANGED <<hdr, ctxBranch, resp, exc, raised, authVars, apiVars, jobVars>>

\* LoggingMiddleware.dispatch resumed with the response: the status line, the
\* trace header, X-Process-Time, return response
LoggingCompleted(r) ==
    /\ At(r, "logging", "ok")
    /\ log' = Emit(log, LogRec(r, GetLogger("http", rid[r]), "INFO", "response"))
    /\ resp' = [resp EXCEPT ![r] =
                  [AddTraceHeadersToResponse(resp[r], rid[r]) EXCEPT !.xptime = TRUE]]
    /\ Return(r, "logging", TRUE)
    /\ UNCHANGED <<hdr, stateRid, ctx, rid, ctxBranch, exc, raised, nextId, authVars, apiVars, jobVars>>

\* variant: the exception is logged and dropped
LoggingExceptSwallow(e) ==
    [level |-> "ERROR", reraise |-> FALSE, exc |-> None]

\* the except block of LoggingMiddleware.dispatch: what it logs and what it
\* leaves to its caller (a bare raise re-raises the exception it caught)
LoggingExcept(e) ==
    [level |-> "ERROR", reraise |-> TRUE, exc |-> e]

\* LoggingMiddleware.dispatch resumed with an exception
LoggingFailed(r) ==
    /\ At(r, "logging", "exc")
    /\ LET out == LoggingExcept(exc[r]) IN
         /\ log' = Emit(log, LogRec(r, GetLogger("http", rid[r]), out.level, "error"))
         /\ exc' = [exc EXCEPT ![r] = out.exc]
         /\ Return(r, "logging", ~out.reraise)
    /\ UNCHANGED <<hdr, stateRid, ctx, rid, ctxBranch, resp, raised, nextId, authVars, apiVars, jobVars>>

\* The route handler, login_for_access_token: first its await of
\* user_service.authenticate_user, which logs through the logger user_service.py
\* bound at module import (debug always, warning when authentication fails)
HandlerService(r, found) ==
    /\ At(r, "handler", "enter")
    /\ LET l1 == Emit(log, LogRec(r, ModuleLogger("user-service"), "DEBUG", "authenticating"))
       IN  log' = IF found THEN l1
                  ELSE Emit(l1, LogRec(r, ModuleLogger("user-service"), "WARNING", "auth-failed"))
    /\ phase' = [phase EXCEPT ![r] = IF found THEN "svc_ok" ELSE "svc_fail"]
    /\ UNCHANGED <<loc, hdr, stateRid, ctx, rid, ctxBranch, resp, exc, raised, nextId, authVars, apiVars, jobVars>>

\* ... then the handler logs through auth_logger = get_trace_logger("auth-controller"),
\* made inside the request, and answers: the token (200) or the HTTPException the
\* framework turns into a 401 response below the middlewares
HandlerReturn(r) ==
    /\ loc[r] = "handler" /\ phase[r] \in {"svc_ok", "svc_fail"}
    /\ LET auth_logger == GetLogger("auth-controller", GetRequestId(ctx, r)) IN
         IF phase[r] = "svc_ok"
         THEN /\ log' = Emit(log, LogRec(r, auth_logger, "INFO", "logged-in"))
              /\ resp' = [resp EXCEPT ![r] = [status |-> 200, xrid |-> None, xptime |-> FALSE]]
         ELSE /\ log' = Emit(log, LogRec(r, auth_logger, "WARNING", "login-failed"))
              /\ resp' = [resp EXCEPT ![r] = [status |-> 401, xrid |-> None, xptime |-> FALSE]]
    /\ Return(r, "handler", TRUE)
    /\ UNCHANGED <<hdr, stateRid, ctx, rid, ctxBranch, exc, raised, nextId, authVars, apiVars, jobVars>>

\* the handler's database call raises an exception no handler is registered for
HandlerRaise(r, e) ==
    /\ At(r, "handler", "enter")
    /\ exc' = [exc EXCEPT ![r] = e]
    /\ raised' = [raised EXCEPT ![r] = e]
    /\ Return(r, "handler", FALSE)
    /\ UNCHANGED <<hdr, stateRid, ctx, rid, ctxBranch, resp, log, nextId, authVars, apiVars, jobVars>>

(***************************************************************************)
(* app/utils/auth.py and its collaborators                                 *)
(***************************************************************************)
\* The clock counts ticks of 1/TicksPerSec second, so that datetime.utcnow()
\* can fall between two whole seconds.
TicksPerSec == 2
MaxTime     == 6
MaxUsers    == 2

\* app/config/settings.py
JWT_SECRET_KEY == "YOUR_SECRET_KEY"
JWT_ALGORITHM  == "HS256"
JWT_ACCESS_TOKEN_EXPIRE_MINUTES == 30
\* the fallback of create_access_token
DEFAULT_EXPIRE_MINUTES == 15

Minutes(m) == m * 60 * TicksPerSec

\* Optional[timedelta]: {} is None, {n} a timedelta of n ticks
NoDelta        == {}
Delta(n)       == {n}
DeltaTicks(d)  == CHOOSE n \in d : TRUE
\* a timedelta is falsy exactly when it is zero; None is falsy
DeltaTruthy(d) == d # NoDelta /\ DeltaTicks(d) # 0

\* jwt.encode turns a datetime exp into whole seconds since the epoch
\* (timegm(exp.utctimetuple())): the fraction of a second is dropped
NumericDate(ticks) == ticks \div TicksPerSec

\* to_encode.update({"exp": expire})
DictUpdate(data, key, value) ==
    [k \in DOMAIN data \cup {key} |-> IF k = key THEN value ELSE data[k]]

\* jwt.encode(payload, key, algorithm): a well-formed token; its signature is
\* determined by the key and the algorithm
JwtEncode(payload, key, algorithm) ==
    [wf |-> TRUE, key |-> key, alg |-> algorithm, claims |-> payload]

\* create_access_token(data, expires_delta) called at `time`; `if expires_delta:`
\* sends None and a zero timedelta to the 15 minute fallback
CreateAccessToken(data, expires_delta, time) ==
    LET expire == IF DeltaTruthy(expires_delta)
                  THEN time + DeltaTicks(expires_delta)
                  ELSE time + Minutes(DEFAULT_EXPIRE_MINUTES)
    IN  JwtEncode(DictUpdate(data, "exp", NumericDate(expire)),
                  JWT_SECRET_KEY, JWT_ALGORITHM)

JwtOk(payload) == [ok |-> TRUE, payload |-> payload]
JwtError(name) == [ok |-> FALSE, error |-> name]

\* variant: the signature is not verified
JwtDecodeNoSignature(t, key, algorithms, time) ==
    IF ~t.wf THEN JwtError("DecodeError")
    ELSE IF t.alg \notin algorithms THEN JwtError("InvalidAlgorithmError")
    ELSE IF "exp" \in DOMAIN t.claims /\ t.claims.exp * TicksPerSec <= time
         THEN JwtError("ExpiredSignatureError")
    ELSE JwtOk(t.claims)

\* variant: exp is not verified
JwtDecodeNoExpiry(t, key, algorithms, time) ==
    IF ~t.wf THEN JwtError("DecodeError")
    ELSE IF t.alg \notin algorithms THEN JwtError("InvalidAlgorithmError")
    ELSE IF t.key # key THEN JwtError("InvalidSignatureError")
    ELSE JwtOk(t.claims)

\* jwt.decode(token, key, algorithms=[...]) at `time`: the structure, then the
\* algorithm, then the signature, then exp (expired when exp <= now, no leeway);
\* every failure is a jwt.exceptions.InvalidTokenError
JwtDecode(t, key, algorithms, time) ==
    IF ~t.wf THEN JwtError("DecodeError")
    ELSE IF t.alg \notin algorithms THEN JwtError("InvalidAlgorithmError")
    ELSE IF t.key # key THEN JwtError("InvalidSignatureError")
    ELSE IF "exp" \in DOMAIN t.claims /\ t.claims.exp * TicksPerSec <= time
         THEN JwtError("ExpiredSignatureError")
    ELSE JwtOk(t.claims)

\* HTTPException(status_code, detail, headers)
HTTPException(code, detail, headers) ==
    [status_code |-> code, detail |-> detail, headers |-> headers]

Raise(e) == [ok |-> FALSE, exc |-> e]

\* the exception decode_token raises for an InvalidTokenError
InvalidTokenException ==
    HTTPException(401, "Could not validate credentials", "WWW-Authenticate: Bearer")

\* credentials_exception of get_current_user
CredentialsException ==
    HTTPException(401, "Could not validate credentials", "WWW-Authenticate: Bearer")

\* decode_token(token) called at `time`
DecodeToken(t, time) ==
    LET r == JwtDecode(t, JWT_SECRET_KEY, {JWT_ALGORITHM}, time) IN
    IF r.ok THEN r ELSE Raise(InvalidTokenException)

\* variant: the filter is dropped, the row with the lowest id comes back
GetByUsernameAny(s, username) ==
    IF s = {} THEN {}
    ELSE {CHOOSE u \in s : \A v \in s : u.id <= v.id}

\* select(User).filter(User.username == username): the matching rows
GetByUsername(s, username) == {u \in s : u.username = username}

\* variant: an unknown user is answered differently from a bad token
GetCurrentUserLeaky(t, s, time) ==
    LET d == DecodeToken(t, time) IN
    IF ~d.ok THEN d
    ELSE IF "sub" \notin DOMAIN d.payload THEN Raise(CredentialsException)
    ELSE LET rows == GetByUsername(s, d.payload.sub) IN
         IF rows = {} THEN Raise(HTTPException(404, "User not found", ""))
         ELSE [ok |-> TRUE, user |-> CHOOSE u \in rows : TRUE]

\* get_current_user(token, db) called at `time`; an HTTPException of decode_token
\* passes through the try block untouched, scalar_one_or_none raises when more
\* than one row matches
GetCurrentUser(t, s, time) ==
    LET d == DecodeToken(t, time) IN
    IF ~d.ok THEN d
    ELSE IF "sub" \notin DOMAIN d.payload THEN Raise(CredentialsException)
    ELSE LET rows == GetByUsername(s, d.payload.sub) IN
         IF rows = {} THEN Raise(CredentialsException)
         ELSE IF Cardinality(rows) > 1
              THEN Raise(HTTPException(500, "MultipleResultsFound", ""))
         ELSE [ok |-> TRUE, user |-> CHOOSE u \in rows : TRUE]

\* ---- inputs ----
Usernames == {"alice", "bob"}
UserIds   == 1..MaxUsers
UserRows  == [id : UserIds, username : Usernames, is_active : BOOLEAN]

\* id is the primary key, username is unique=True
ValidStore(s) ==
    \A u, v \in s : (u.id = v.id \/ u.username = v.username) => u = v

Stores == {s \in SUBSET UserRows : ValidStore(s)}

\* claim sets handed to create_access_token: {"sub": username} and one without sub
EmptyDict  == [k \in {} |-> None]
ClaimSets  == {[sub |-> u] : u \in Usernames} \cup {EmptyDict}

\* expires_delta arguments: None, negative, zero, fractions of a second, seconds,
\* and the configured token lifetime
Deltas == {NoDelta} \cup {Delta(n) : n \in {-2, 0, 1, 2}}
          \cup {Delta(Minutes(JWT_ACCESS_TOKEN_EXPIRE_MINUTES))}

\* what a client can present without the server having issued it: a string that
\* is no token, tokens signed with another secret, an unsigned token, and a
\* token made for another algorithm
Garbage == [wf |-> FALSE, key |-> "", alg |-> "", claims |-> EmptyDict]

ForeignTokens ==
    {Garbage}
    \cup {[wf |-> TRUE, key |-> "other-secret", alg |-> JWT_ALGORITHM, claims |-> c] :
              c \in {[sub |-> "alice", exp |-> 1000000], [sub |-> "alice"]}}
    \cup {[wf |-> TRUE, key |-> "", alg |-> "none",
           claims |-> [sub |-> "alice", exp |-> 1000000]]}
    \cup {[wf |-> TRUE, key |-> JWT_SECRET_KEY, alg |-> "HS512",
           claims |-> [sub |-> "bob", exp |-> 1000000]]}

NotIssued == [made |-> FALSE]
NoResult  == [op |-> "none"]

\* ---- actions ----
\* time passes; authRes only ever describes a call made at the current instant
Tick ==
    /\ now < MaxTime
    /\ now' = now + 1
    /\ authRes' = NoResult
    /\ UNCHANGED <<tok, issue, store, mwVars, apiVars, jobVars>>

\* the server issues a token and the client holds it from now on
IssueToken(data, expires_delta) ==
    /\ tok' = CreateAccessToken(data, expires_delta, now)
    /\ issue' = [made |-> TRUE, at |-> now, data |-> data, delta |-> expires_delta]
    /\ authRes' = NoResult
    /\ UNCHANGED <<now, store, mwVars, apiVars, jobVars>>

\* the client switches to a token the server did not issue
PresentForeign(t) ==
    /\ tok' = t
    /\ issue' = NotIssued
    /\ authRes' = NoResult
    /\ UNCHANGED <<now, store, mwVars, apiVars, jobVars>>

CallDecodeToken ==
    /\ authRes' = [op |-> "decode_token", at |-> now, out |-> DecodeToken(tok, now)]
    /\ UNCHANGED <<now, tok, issue, store, mwVars, apiVars, jobVars>>

CallGetCurrentUser ==
    /\ authRes' = [op |-> "get_current_user", at |-> now,
                   out |-> GetCurrentUser(tok, store, now)]
    /\ UNCHANGED <<now, tok, issue, store, mwVars, apiVars, jobVars>>

\* no object stored, no request in flight, no request served yet
InitApiIdle ==
    /\ objects = {}
    /\ nextKey = 0
    /\ pending = {}
    /\ apiRes = NoResult
    /\ issued = {}

\* process_data tasks a producer may send
MaxTasks == 2
TaskIds  == 1..MaxTasks

\* a task nobody has sent yet
NewTask == [state |-> "NONE", retries |-> 0, countdowns |-> <<>>, error |-> None]

\* BackgroundScheduler(...) as the module creates it: stopped, nothing pending;
\* `store` is the job table of the SQLAlchemyJobStore, `testing` whether the
\* process runs with TESTING=1
NewScheduler(testing) ==
    [running |-> FALSE, pending |-> <<>>, store |-> {}, testing |-> testing,
     calls |-> 0, errors |-> <<>>, raised |-> FALSE]

InitJobsIdle ==
    /\ tasks = [t \in TaskIds |-> NewTask]
    /\ sched = NewScheduler(FALSE)

InitAuthIdle ==
    /\ now = 0
    /\ tok = Garbage
    /\ issue = NotIssued
    /\ store = {}
    /\ authRes = NoResult

InitMwIdle ==
    /\ loc = [r \in Requests |-> "client"]
    /\ phase = [r \in Requests |-> "idle"]
    /\ hdr = [r \in Requests |-> None]
    /\ stateRid = [r \in Requests |-> None]
    /\ ctx = [r \in Requests |-> None]
    /\ rid = [r \in Requests |-> None]
    /\ ctxBranch = [r \in Requests |-> None]
    /\ resp = [r \in Requests |-> NoResponse]
    /\ exc = [r \in Requests |-> None]
    /\ raised = [r \in Requests |-> None]
    /\ log = {}
    /\ nextId = 0

InitAuth ==
    /\ InitMwIdle
    /\ InitApiIdle
    /\ InitJobsIdle
    /\ now = 0
    /\ tok = Garbage
    /\ issue = NotIssued
    /\ store \in Stores
    /\ authRes = NoResult

NextAuth ==
    \/ Tick
    \/ \E data \in ClaimSets, d \in Deltas : IssueToken(data, d)
    \/ \E t \in ForeignTokens : PresentForeign(t)
    \/ CallDecodeToken
    \/ CallGetCurrentUser

SpecAuth == InitAuth /\ [][NextAuth]_vars

Init == InitMwIdle /\ InitAuthIdle /\ InitApiIdle /\ InitJobsIdle

Next ==
    \E r \in Requests :
        \/ \E h \in Headers : Receive(r, h)
        \/ ContextEnter(r)
        \/ LoggingEnter(r)
        \/ \E found \in BOOLEAN : HandlerService(r, found)
        \/ HandlerReturn(r)
        \/ \E e \in Errors : HandlerRaise(r, e)
        \/ LoggingCompleted(r)
        \/ LoggingFailed(r)
        \/ ContextCompleted(r)
        \/ ContextFailed(r)

Spec == Init /\ [][Next]_vars

(***************************************************************************)
(* Positions of a request relative to LoggingMiddleware                    *)
(***************************************************************************)
\* code below LoggingMiddleware's call_next is running for r
Downstream(r) == loc[r] # "client" /\ Index(loc[r]) > Index("logging")

\* LoggingMiddleware.dispatch has handed r back to its caller
LeftLogging(r) ==
    /\ phase[r] \in {"ok", "exc", "done", "failed"}
    /\ loc[r] = "client" \/ Index(loc[r]) < Index("logging")

ReturnedNormally(r) == LeftLogging(r) /\ phase[r] \in {"ok", "done"}
Propagated(r)        == LeftLogging(r) /\ phase[r] \in {"exc", "failed"}

\* set_request_id has run for r and r is not finished yet
SlotLive(r) == rid[r] # None /\ loc[r] # "client"

IsGenerated(id) == \E n \in 1..nextId : id = GenerateRequestId(n)

DownstreamContexts == {"user-service", "auth-controller"}

(***************************************************************************)
(* C1  Isolation of the ambient slot: from a request's set_request_id to   *)
(* its completion, get_request_id() in its own call chain returns its own  *)
(* id whatever the other requests do, and every log line attributed to a   *)
(* request carries that request's id or the sentinel, never an id that     *)
(* belongs to another request only.                                        *)
(***************************************************************************)
C1_SlotIsolation ==
    /\ \A r \in Requests : SlotLive(r) => GetRequestId(ctx, r) = rid[r]
    /\ \A rec \in log : rec.request_id \in {rid[rec.req], NoRequestId}

\* two requests in flight at once, both past set_request_id, with different ids
C1_Witness ==
    \E a, b \in Requests :
        /\ a # b /\ Downstream(a) /\ Downstream(b)
        /\ rid[a] # rid[b]
        /\ GetRequestId(ctx, a) = rid[a] /\ GetRequestId(ctx, b) = rid[b]

(***************************************************************************)
(* C2  As stated: a request that LoggingMiddleware completes normally       *)
(* gets its X-Request-ID header echoed back unchanged whenever it carried  *)
(* one, and gets a freshly generated id (never absent, never the id of     *)
(* another request) when it carried none.                                  *)
(***************************************************************************)
FreshFor(r) ==
    /\ resp[r].xrid # None
    /\ IsGenerated(resp[r].xrid)
    /\ \A o \in Requests \ {r} : rid[o] # resp[r].xrid

C2_AsStated ==
    \A r \in Requests : ReturnedNormally(r) =>
        IF hdr[r] # None THEN resp[r].xrid = hdr[r] ELSE FreshFor(r)

(***************************************************************************)
(* C2  Amended: a non-empty X-Request-ID header is echoed back unchanged;  *)
(* a request with no header, or with an empty one, gets a freshly          *)
(* generated id that is never absent and never the id of another request.  *)
(***************************************************************************)
C2_EchoOrFresh ==
    \A r \in Requests : ReturnedNormally(r) =>
        IF hdr[r] \notin {None, ""} THEN resp[r].xrid = hdr[r] ELSE FreshFor(r)

\* one answered request that carried an id and one that carried none
C2_Witness ==
    \E a, b \in Requests :
        /\ phase[a] = "done" /\ hdr[a] = "abc-123" /\ resp[a].xrid = "abc-123"
        /\ phase[b] = "done" /\ hdr[b] = None /\ IsGenerated(resp[b].xrid)

(***************************************************************************)
(* C3  Every log line downstream code emits while a request is in flight   *)
(* carries that request's id (not the sentinel), and the answer's          *)
(* X-Request-ID header carries it too.                                     *)
(***************************************************************************)
C3_DownstreamLinesCarryId ==
    /\ \A rec \in log : rec.context \in DownstreamContexts =>
            /\ rec.request_id # NoRequestId
            /\ rec.request_id = rid[rec.req]
    /\ \A r \in Requests : ReturnedNormally(r) => resp[r].xrid = rid[r]

(***************************************************************************)
(* C4  Whenever code downstream of LoggingMiddleware is running for a      *)
(* request, the ambient slot already holds the id resolved for that        *)
(* request (the one stored in request.state as well).                      *)
(***************************************************************************)
C4_SlotSetBeforeDownstream ==
    \A r \in Requests : Downstream(r) =>
        /\ GetRequestId(ctx, r) # None
        /\ GetRequestId(ctx, r) = rid[r]
        /\ GetRequestId(ctx, r) = stateRid[r]

\* the handler of a request that brought no id is running
C4_Witness ==
    \E r \in Requests :
        /\ loc[r] = "handler" /\ hdr[r] = None
        /\ IsGenerated(GetRequestId(ctx, r))

(***************************************************************************)
(* C5  When the downstream chain raises, LoggingMiddleware logs an error   *)
(* line and hands its caller the very exception that was raised: no        *)
(* response is made of it, no other exception replaces it, and the         *)
(* middleware never returns normally for that request.                     *)
(***************************************************************************)
C5_ErrorPropagatedUnchanged ==
    \A r \in Requests :
        /\ (raised[r] # None /\ LeftLogging(r)) =>
              /\ Propagated(r)
              /\ exc[r] = raised[r]
              /\ resp[r] = NoResponse
              /\ \E rec \in log : /\ rec.req = r /\ rec.context = "http"
                                  /\ rec.level = "ERROR" /\ rec.request_id = rid[r]
        /\ ReturnedNormally(r) => raised[r] = None

\* an exception of the handler has travelled through LoggingMiddleware
C5_Witness ==
    \E r \in Requests : raised[r] = "RuntimeError" /\ Propagated(r)

(***************************************************************************)
(* Helpers for the claims about tokens                                     *)
(***************************************************************************)
Decoded  == authRes.op = "decode_token"
Resolved == authRes.op = "get_current_user"

\* tok came out of create_access_token with an expires_delta > 0
IssuedWithPositiveTtl ==
    /\ issue.made
    /\ issue.delta # NoDelta
    /\ DeltaTicks(issue.delta) > 0

\* the instant t0 + ttl, and that instant cut to a whole second, in ticks
Deadline     == issue.at + DeltaTicks(issue.delta)
DeadlineSecs == (Deadline \div TicksPerSec) * TicksPerSec

CarriesData(payload) ==
    \A k \in DOMAIN issue.data : k \in DOMAIN payload /\ payload[k] = issue.data[k]

FailedInvalidToken(out) ==
    /\ ~out.ok
    /\ out.exc.status_code = 401
    /\ out.exc.detail = "Could not validate credentials"

(***************************************************************************)
(* C6  As stated: a token made at t0 with ttl > 0 decodes to its claims at *)
(* every time t with t0 <= t < t0 + ttl and fails with InvalidToken (401)  *)
(* at every time t > t0 + ttl.                                             *)
(***************************************************************************)
C6_AsStated ==
    (Decoded /\ IssuedWithPositiveTtl) =>
        /\ authRes.at < Deadline => (authRes.out.ok /\ CarriesData(authRes.out.payload))
        /\ authRes.at > Deadline => FailedInvalidToken(authRes.out)

(***************************************************************************)
(* C6  Amended: exp is t0 + ttl cut down to a whole second.  The token     *)
(* decodes to its claims (the original sub included) at every time t with  *)
(* t0 <= t < trunc(t0 + ttl) and fails with InvalidToken (401) at every    *)
(* time t >= trunc(t0 + ttl), so in particular at every t > t0 + ttl.      *)
(***************************************************************************)
C6_ValidUntilTruncatedDeadline ==
    (Decoded /\ IssuedWithPositiveTtl) =>
        /\ authRes.at < DeadlineSecs =>
              (authRes.out.ok /\ CarriesData(authRes.out.payload))
        /\ authRes.at >= DeadlineSecs => FailedInvalidToken(authRes.out)
        /\ authRes.at > Deadline => FailedInvalidToken(authRes.out)

\* alice's token, made when the clock stood between two whole seconds, decoded
\* successfully some time after it was made
C6_Witness ==
    /\ Decoded /\ IssuedWithPositiveTtl
    /\ issue.at % TicksPerSec # 0
    /\ authRes.at > issue.at
    /\ authRes.out.ok
    /\ "sub" \in DOMAIN authRes.out.payload
    /\ authRes.out.payload.sub = "alice"

(***************************************************************************)
(* C7  create_access_token sets exp = now + ttl (as a whole-second date)   *)
(* for every ttl the caller supplies, zero and negative ones included,     *)
(* uses now + 15 minutes only when no ttl is supplied, and carries every   *)
(* other claim of the input into the token unchanged.                      *)
(***************************************************************************)
C7_ExpIsNowPlusTtl ==
    issue.made =>
        /\ tok.claims.exp =
              IF issue.delta # NoDelta
              THEN NumericDate(issue.at + DeltaTicks(issue.delta))
              ELSE NumericDate(issue.at + Minutes(DEFAULT_EXPIRE_MINUTES))
        /\ \A k \in DOMAIN issue.data : k # "exp" => tok.claims[k] = issue.data[k]

(***************************************************************************)
(* C8  decode_token returns the claims exactly for a token that is well    *)
(* formed, signed with the server secret, made for the configured          *)
(* algorithm and whose expiry is later than the current time; for every    *)
(* other input it fails with the 401 InvalidToken condition.               *)
(***************************************************************************)
TokenValidAt(t, time) ==
    /\ t.wf
    /\ t.key = JWT_SECRET_KEY
    /\ t.alg = JWT_ALGORITHM
    /\ "exp" \in DOMAIN t.claims
    /\ t.claims.exp * TicksPerSec > time

C8_DecodeOnlyValidTokens ==
    Decoded =>
        IF TokenValidAt(tok, authRes.at)
        THEN authRes.out.ok /\ authRes.out.payload = tok.claims
        ELSE /\ FailedInvalidToken(authRes.out)
             /\ authRes.out.exc.headers = "WWW-Authenticate: Bearer"

\* a well-formed token for the configured algorithm, signed with another
\* secret, was refused
C8_Witness ==
    /\ Decoded
    /\ tok.wf /\ tok.alg = JWT_ALGORITHM /\ tok.key # JWT_SECRET_KEY
    /\ ~authRes.out.ok

(***************************************************************************)
(* C9  Every failure of get_current_user is the same response (401, same   *)
(* detail, same WWW-Authenticate header), whether the token failed to      *)
(* decode, had no sub claim, or named no stored principal; and a failing   *)
(* run answers the same whatever the store holds.                          *)
(***************************************************************************)
C9_UniformUnauthorized ==
    (Resolved /\ ~authRes.out.ok) =>
        /\ authRes.out.exc =
              HTTPException(401, "Could not validate credentials", "WWW-Authenticate: Bearer")
        /\ \A s2 \in Stores :
              LET other == GetCurrentUser(tok, s2, authRes.at) IN
              ~other.ok => other = authRes.out

\* the token decoded, had a sub, and the sub named nobody in a non-empty store
C9_Witness ==
    /\ Resolved /\ ~authRes.out.ok
    /\ DecodeToken(tok, authRes.at).ok
    /\ "sub" \in DOMAIN tok.claims
    /\ store # {}
    /\ \A u \in store : u.username # tok.claims.sub

(***************************************************************************)
(* C10  For a valid unexpired token whose sub is the username of a         *)
(* principal in the store, get_current_user returns exactly that           *)
(* principal's record.                                                     *)
(***************************************************************************)
C10_ResolvesNamedPrincipal ==
    (/\ Resolved
     /\ TokenValidAt(tok, authRes.at)
     /\ "sub" \in DOMAIN tok.claims
     /\ \E u \in store : u.username = tok.claims.sub) =>
        /\ authRes.out.ok
        /\ authRes.out.user \in store
        /\ authRes.out.user.username = tok.claims.sub

\* bob resolved, under the configured 30 minute lifetime, from a store in which
\* bob is not the only principal
C10_Witness ==
    /\ Resolved /\ authRes.out.ok
    /\ issue.made /\ issue.delta = Delta(Minutes(JWT_ACCESS_TOKEN_EXPIRE_MINUTES))
    /\ authRes.out.user.username = "bob"
    /\ authRes.out.user.is_active
    /\ Cardinality(store) = 2


(***************************************************************************)
(* HTTP API: app/controllers over app/services and app/repositories        *)
(*                                                                         *)
(* SpecApi  : requests to the auth, users and upload controllers, served   *)
(*            one at a time over the users table and the S3 bucket.        *)
(* SpecRace : create_user, register and update_user requests whose         *)
(*            database round trips interleave.                             *)
(***************************************************************************)
\* generate_password_hash salts and hashes; all the model keeps of it is which
\* password a hash was made from
GeneratePasswordHash(password) == "pbkdf2(" \o password \o ")"

\* variant: every password is accepted
CheckPasswordHashAny(hashed, password) == TRUE

\* check_password_hash(hashed_password, password)
CheckPasswordHash(hashed, password) == hashed = GeneratePasswordHash(password)

\* User(username, email, password, is_superuser=...) once flushed with primary
\* key `id`; is_active takes its column default
User(id, username, email, password, is_superuser) ==
    [id |-> id, username |-> username, email |-> email,
     hashed_password |-> GeneratePasswordHash(password),
     is_active |-> TRUE, is_superuser |-> is_superuser]

\* the administrator seeded by scripts/init_db.py and one ordinary user
SeedStore ==
    {User(1, "admin", "admin@example.com", "adminpassword", TRUE),
     User(2, "alice", "alice@example.com", "password123", FALSE)}

\* UNIQUE(username), UNIQUE(email) and the primary key of the users table
UniqueUsers(s) ==
    \A u, v \in s :
        (u.id = v.id \/ u.username = v.username \/ u.email = v.email) => u = v

\* ---- what a client can send ----
ApiNames     == {"admin", "alice", "bob"}
ApiPasswords == {"adminpassword", "password123"}
ApiEmails    == {"alice@example.com", "bob@example.com"}
\* user_id path parameters: the two seeded rows and an id no row has
PathIds      == {"1", "2", "7"}

\* Authorization header: absent, or "Bearer <token>"
NoBearer  == {}
Bearer(t) == {t}

\* the token POST /auth/token hands out for `username`
AccessTokenFor(username, time) ==
    CreateAccessToken([sub |-> username],
                      Delta(Minutes(JWT_ACCESS_TOKEN_EXPIRE_MINUTES)), time)

Credentials ==
    {NoBearer, Bearer(Garbage)} \cup {Bearer(AccessTokenFor(u, 0)) : u \in ApiNames}

\* ---- responses ----
JsonResponse(status, data) == [status |-> status, detail |-> "", data |-> data]

\* FastAPI's handler for HTTPException: the status code and {"detail": ...}
ExceptionResponse(e) == [status |-> e.status_code, detail |-> e.detail, data |-> EmptyDict]

\* an exception nobody catches leaves the stack and is answered with a bare 500
InternalServerError == [status |-> 500, detail |-> "Internal Server Error", data |-> EmptyDict]

\* ---- dependencies of a protected route ----
\* OAuth2PasswordBearer(tokenUrl=...): no bearer credentials, no token
OAuth2Scheme(authorization) ==
    IF authorization = NoBearer
    THEN Raise(HTTPException(401, "Not authenticated", "WWW-Authenticate: Bearer"))
    ELSE [ok |-> TRUE, token |-> CHOOSE t \in authorization : TRUE]

\* variant: the is_active flag is not looked at
GetCurrentActiveUserLax(current_user) == [ok |-> TRUE, user |-> current_user]

\* get_current_active_user(current_user)
GetCurrentActiveUser(current_user) ==
    IF ~current_user.is_active
    THEN Raise(HTTPException(400, "Inactive user", ""))
    ELSE [ok |-> TRUE, user |-> current_user]

\* variant: a request without credentials is let through as the first user
SolveDependenciesOpen(authorization, s, time) ==
    IF authorization = NoBearer /\ s # {}
    THEN [ok |-> TRUE, user |-> CHOOSE u \in s : \A v \in s : u.id <= v.id]
    ELSE LET t == OAuth2Scheme(authorization) IN
         IF ~t.ok THEN t
         ELSE LET u == GetCurrentUser(t.token, s, time) IN
              IF ~u.ok THEN u ELSE GetCurrentActiveUser(u.user)

\* Depends(get_current_active_user) <- Depends(get_current_user) <-
\* Depends(oauth2_scheme): the first dependency that raises ends the request
SolveDependencies(authorization, s, time) ==
    LET t == OAuth2Scheme(authorization) IN
    IF ~t.ok THEN t
    ELSE LET u == GetCurrentUser(t.token, s, time) IN
         IF ~u.ok THEN u ELSE GetCurrentActiveUser(u.user)

\* the database queries the dependencies make: get_current_user looks the
\* user up once the token decoded and carries a sub claim
DependencyCalls(authorization, time) ==
    LET t == OAuth2Scheme(authorization) IN
    IF ~t.ok THEN <<>>
    ELSE LET d == DecodeToken(t.token, time) IN
         IF d.ok /\ "sub" \in DOMAIN d.payload
         THEN <<"users.get_by_username">> ELSE <<>>

(***************************************************************************)
(* user_service / user_repository                                          *)
(***************************************************************************)
\* a Python exception that is no HTTPException
PyError(type, msg) == [type |-> type, msg |-> msg]

\* select(User).filter(User.id == id) with the str path parameter: the users
\* table compares its INTEGER column with the text of the id
GetById(s, id) == {u \in s : ToString(u.id) = id}

\* select(User).filter(User.email == email)
GetByEmail(s, email) == {u \in s : u.email = email}

\* Python's == between a str and an int: never equal, whatever they hold
StrEqInt(str, int) == FALSE

\* binding a call's keyword arguments to a signature fails with TypeError when
\* a parameter without default is missing or an unknown keyword is passed
BindError(kwargs, required, accepted) ==
    \/ required \ DOMAIN kwargs # {}
    \/ DOMAIN kwargs \ accepted # {}

\* db.add(user); db.commit() under the table's unique constraints; the primary
\* key is the next integer
Insert(s, username, email, password, is_superuser) ==
    LET id  == IF s = {} THEN 1
               ELSE 1 + (CHOOSE n \in {u.id : u \in s} : \A u \in s : u.id <= n)
        row == User(id, username, email, password, is_superuser)
    IN  IF UniqueUsers(s \cup {row})
        THEN [ok |-> TRUE, user |-> row, store |-> s \cup {row}]
        ELSE [ok |-> FALSE, exc |-> PyError("IntegrityError", "UNIQUE constraint failed")]

\* UserRepository.create_user(db, username, email, password, full_name=None,
\*                            is_superuser=False)
UserRepositoryCreateUser(s, kwargs) ==
    IF BindError(kwargs, {"db", "username", "email", "password"},
                 {"db", "username", "email", "password", "full_name", "is_superuser"})
    THEN [ok |-> FALSE,
          exc |-> PyError("TypeError", "create_user() got an unexpected keyword argument")]
    ELSE Insert(s, kwargs.username, kwargs.email, kwargs.password, kwargs.is_superuser)

\* UserService.create_user(db, username, email, password, gender,
\*                         full_name=None, is_superuser=False) up to the call of
\* the repository: the binding of the arguments and the two lookups
UserServiceLookups(s, kwargs) ==
    IF BindError(kwargs, {"db", "username", "email", "password", "gender"},
                 {"db", "username", "email", "password", "gender", "full_name",
                  "is_superuser"})
    THEN [ok |-> FALSE, calls |-> <<>>,
          exc |-> PyError("TypeError", "create_user() missing 1 required argument")]
    ELSE IF GetByEmail(s, kwargs.email) # {}
    THEN [ok |-> FALSE, calls |-> <<"users.get_by_email">>,
          exc |-> PyError("ValueError", "User with email already exists")]
    ELSE IF GetByUsername(s, kwargs.username) # {}
    THEN [ok |-> FALSE, calls |-> <<"users.get_by_email", "users.get_by_username">>,
          exc |-> PyError("ValueError", "User with username already exists")]
    ELSE [ok |-> TRUE, calls |-> <<"users.get_by_email", "users.get_by_username">>]

\* the keyword arguments UserService.create_user hands to the repository
RepositoryArgs(kwargs) ==
    [db |-> "db", username |-> kwargs.username, email |-> kwargs.email,
     password |-> kwargs.password,
     full_name |-> IF "full_name" \in DOMAIN kwargs THEN kwargs.full_name ELSE None,
     is_superuser |-> IF "is_superuser" \in DOMAIN kwargs THEN kwargs.is_superuser
                      ELSE FALSE,
     gender |-> kwargs.gender]

\* UserService.create_user: the lookups, then user_repository.create_user
UserServiceCreateUser(s, kwargs) ==
    LET c == UserServiceLookups(s, kwargs) IN
    IF ~c.ok THEN c
    ELSE LET r == UserRepositoryCreateUser(s, RepositoryArgs(kwargs)) IN
         IF r.ok THEN [ok |-> TRUE, user |-> r.user, store |-> r.store,
                       calls |-> c.calls \o <<"users.insert">>]
         ELSE [ok |-> FALSE, exc |-> r.exc, calls |-> c.calls]

\* UserService.authenticate_user(db, username, password): the user, or None
\* (the empty set) for an unknown username and for a wrong password
AuthenticateUser(s, username, password) ==
    LET rows == GetByUsername(s, username) IN
    IF rows = {} THEN {}
    ELSE {u \in rows : CheckPasswordHash(u.hashed_password, password)}

\* BaseRepository.update(db, db_obj, obj_in): every column named by the
\* update data is overwritten
SetAttrs(row, update_data) ==
    [f \in DOMAIN row |-> IF f \in DOMAIN update_data THEN update_data[f] ELSE row[f]]

\* variant: the commit is not held to the unique constraints
ServiceUpdateNoConstraint(s, id, obj_in) ==
    LET rows == GetById(s, id) IN
    IF rows = {} THEN [ok |-> TRUE, user |-> {}, store |-> s]
    ELSE LET old == CHOOSE u \in rows : TRUE
             new == SetAttrs(old, obj_in)
         IN  [ok |-> TRUE, user |-> {new}, store |-> (s \ {old}) \cup {new}]

\* BaseService.update(db, id, obj_in): None for a missing row, else the row
\* after BaseRepository.update committed it; the commit fails on a duplicate
\* username or email
ServiceUpdate(s, id, obj_in) ==
    LET rows == GetById(s, id) IN
    IF rows = {} THEN [ok |-> TRUE, user |-> {}, store |-> s]
    ELSE LET old == CHOOSE u \in rows : TRUE
             new == SetAttrs(old, obj_in)
             s2  == (s \ {old}) \cup {new}
         IN  IF UniqueUsers(s2)
             THEN [ok |-> TRUE, user |-> {new}, store |-> s2]
             ELSE [ok |-> FALSE,
                   exc |-> PyError("IntegrityError", "UNIQUE constraint failed")]

\* BaseService.delete(db, id) over BaseRepository.delete
ServiceDelete(s, id) == s \ GetById(s, id)

(***************************************************************************)
(* auth_controller / user_controller: the bodies of the route handlers.    *)
(* Each yields the response, the users table it leaves behind and the      *)
(* database calls it made.                                                 *)
(***************************************************************************)
\* response_model=UserResponse: the hashed password is not part of it
UserResponse(u) ==
    [id |-> u.id, username |-> u.username, email |-> u.email,
     is_active |-> u.is_active, is_superuser |-> u.is_superuser]

Done(response, s, calls) == [resp |-> response, store |-> s, calls |-> calls]

\* POST /auth/token
LoginForAccessToken(s, username, password, time) ==
    LET user  == AuthenticateUser(s, username, password)
        calls == <<"users.get_by_username">>
    IN  IF user = {}
        THEN Done(ExceptionResponse(HTTPException(401, "Incorrect username or password",
                                                  "WWW-Authenticate: Bearer")), s, calls)
        ELSE LET u == CHOOSE x \in user : TRUE IN
             IF ~u.is_active
             THEN Done(ExceptionResponse(HTTPException(401, "Inactive user",
                                                       "WWW-Authenticate: Bearer")), s, calls)
             ELSE Done(JsonResponse(200,
                           [access_token |-> AccessTokenFor(u.username, time),
                            token_type |-> "bearer"]), s, calls)

\* POST /auth/register: create_user is called without gender
Register(s, username, password, time) ==
    LET r == UserServiceCreateUser(s,
                 [db |-> "db", username |-> username,
                  email |-> username \o "@example.com", password |-> password])
    IN  IF r.ok
        THEN Done(JsonResponse(200,
                      [access_token |-> AccessTokenFor(r.user.username, time),
                       token_type |-> "bearer"]), r.store, r.calls)
        ELSE IF r.exc.type = "ValueError"
        THEN Done(ExceptionResponse(HTTPException(400, r.exc.msg, "")), s, r.calls)
        ELSE Done(ExceptionResponse(HTTPException(500, "An unexpected error occurred", "")),
                  s, r.calls)

\* POST /users/ with a UserCreate body
CreateUser(s, user_in) ==
    LET r == UserServiceCreateUser(s,
                 [db |-> "db", username |-> user_in.username, email |-> user_in.email,
                  password |-> user_in.password, gender |-> user_in.gender,
                  full_name |-> user_in.full_name])
    IN  IF r.ok
        THEN Done(JsonResponse(201, UserResponse(r.user)), r.store, r.calls)
        ELSE IF r.exc.type = "ValueError"
        THEN Done(ExceptionResponse(HTTPException(400, r.exc.msg, "")), s, r.calls)
        ELSE Done(ExceptionResponse(HTTPException(500, "An unexpected error occurred", "")),
                  s, r.calls)

\* rows in primary-key order, as a list
RECURSIVE RowsById(_)
RowsById(s) ==
    IF s = {} THEN <<>>
    ELSE LET first == CHOOSE u \in s : \A v \in s : u.id <= v.id
         IN  <<first>> \o RowsById(s \ {first})

\* query.offset(skip).limit(limit)
OffsetLimit(rows, skip, limit) ==
    SubSeq(rows, skip + 1, IF skip + limit < Len(rows) THEN skip + limit ELSE Len(rows))

\* GET /users/: skip and limit are plain ints, so 0 is a limit like any other;
\* `skip // limit` then raises ZeroDivisionError, which nothing catches
GetUsers(s, skip, limit) ==
    LET users == OffsetLimit(RowsById(s), skip, limit)
        total == Cardinality(s)
    IN  IF limit = 0
        THEN Done(InternalServerError, s, <<"users.get_all", "users.count">>)
        ELSE Done(JsonResponse(200,
                 [data |-> [i \in DOMAIN users |-> UserResponse(users[i])],
                  total |-> total, page |-> (skip \div limit) + 1, size |-> limit,
                  pages |-> (total + limit - 1) \div limit]),
             s, <<"users.get_all", "users.count">>)

\* GET /users/me
GetCurrentUserInfo(s, current_user) ==
    Done(JsonResponse(200, UserResponse(current_user)), s, <<>>)

\* GET /users/{user_id}
GetUser(s, user_id) ==
    LET user == GetById(s, user_id) IN
    IF user = {}
    THEN Done(ExceptionResponse(HTTPException(404, "User not found", "")), s,
              <<"users.get_by_id">>)
    ELSE Done(JsonResponse(200, UserResponse(CHOOSE u \in user : TRUE)), s,
              <<"users.get_by_id">>)

\* update_user up to its permission check: the exception it raises, if any
UpdateUserCheck(s, user_id, current_user) ==
    IF GetById(s, user_id) = {}
    THEN Raise(HTTPException(404, "User not found", ""))
    ELSE IF ~StrEqInt(user_id, current_user.id) /\ ~current_user.is_superuser
    THEN Raise(HTTPException(403, "Not enough permissions", ""))
    ELSE [ok |-> TRUE]

\* variant: fields the schema does not declare are kept
UserUpdateDictAllowExtra(body) == body

\* UserUpdate(**body).dict(exclude_unset=True): the fields of the body that
\* UserUpdate declares; pydantic drops the others
UserUpdateDict(body) ==
    [f \in DOMAIN body \cap {"username", "email", "full_name", "is_active"} |-> body[f]]

\* update_user from user_service.update on; an IntegrityError is caught nowhere
UpdateUserCommit(s, user_id, user_in) ==
    LET r == ServiceUpdate(s, user_id, UserUpdateDict(user_in)) IN
    IF ~r.ok THEN Done(InternalServerError, s, <<"users.get_by_id", "users.commit">>)
    ELSE IF r.user = {} THEN Done(JsonResponse(200, EmptyDict), s, <<"users.get_by_id">>)
    ELSE Done(JsonResponse(200, UserResponse(CHOOSE u \in r.user : TRUE)), r.store,
              <<"users.get_by_id", "users.commit">>)

\* PUT /users/{user_id} with a UserUpdate body
UpdateUser(s, user_id, obj_in, current_user) ==
    LET c == UpdateUserCheck(s, user_id, current_user) IN
    IF ~c.ok THEN Done(ExceptionResponse(c.exc), s, <<"users.get_by_id">>)
    ELSE LET m == UpdateUserCommit(s, user_id, obj_in)
         IN  Done(m.resp, m.store, <<"users.get_by_id">> \o m.calls)

\* variant: the target may delete itself
DeleteUserSelfAllowed(s, user_id, current_user) ==
    IF GetById(s, user_id) = {}
    THEN Done(ExceptionResponse(HTTPException(404, "User not found", "")), s,
              <<"users.get_by_id">>)
    ELSE IF ~current_user.is_superuser /\ ToString(current_user.id) # user_id
    THEN Done(ExceptionResponse(HTTPException(403, "Not enough permissions", "")), s,
              <<"users.get_by_id">>)
    ELSE Done(JsonResponse(200, [message |-> "User deleted successfully"]),
              ServiceDelete(s, user_id),
              <<"users.get_by_id", "users.get_by_id", "users.delete">>)

\* DELETE /users/{user_id}
DeleteUser(s, user_id, current_user) ==
    IF GetById(s, user_id) = {}
    THEN Done(ExceptionResponse(HTTPException(404, "User not found", "")), s,
              <<"users.get_by_id">>)
    ELSE IF ~current_user.is_superuser
    THEN Done(ExceptionResponse(HTTPException(403, "Not enough permissions", "")), s,
              <<"users.get_by_id">>)
    ELSE Done(JsonResponse(200, [message |-> "User deleted successfully"]),
              ServiceDelete(s, user_id),
              <<"users.get_by_id", "users.get_by_id", "users.delete">>)

(***************************************************************************)
(* upload_schema / s3_service / upload_service                             *)
(***************************************************************************)
\* the number of keys generate_unique_filename hands out in one run
MaxUploads == 2

\* app/config/settings.py
S3_TEMP_FOLDER == "tmp"
S3_PRESIGNED_URL_EXPIRATION == 3600
\* max_size of validate_file_size, in bytes
MAX_SIZE == 10 * 1024 * 1024
FILENAME_MAX_LENGTH == 255

\* ---- str primitives ----
CharAt(v, i)     == SubSeq(v, i, i)
Contains(v, sub) ==
    \E i \in 1..(Len(v) - Len(sub) + 1) : SubSeq(v, i, i + Len(sub) - 1) = sub
StartsWith(v, p) == Len(v) >= Len(p) /\ SubSeq(v, 1, Len(p)) = p
\* v.strip()
Strip(v) ==
    LET ink == {i \in 1..Len(v) : CharAt(v, i) # " "} IN
    IF ink = {} THEN ""
    ELSE SubSeq(v, CHOOSE i \in ink : \A j \in ink : i <= j,
                   CHOOSE i \in ink : \A j \in ink : j <= i)
\* os.path.splitext(v)[1]: from the last dot on, unless only dots precede it
SplitExt(v) ==
    LET dots == {i \in 1..Len(v) : /\ CharAt(v, i) = "."
                                   /\ \E j \in 1..(i - 1) : CharAt(v, j) # "."}
    IN  IF dots = {} THEN ""
        ELSE SubSeq(v, CHOOSE i \in dots : \A j \in dots : j <= i, Len(v))

\* ---- FileValidationRequest ----
DangerousChars == {"/", "\\", "..", "<", ">", ":", "\"", "|", "?", "*"}
AllowedTypes ==
    {"image/jpeg", "image/jpg", "image/png", "image/gif", "image/webp", "image/bmp"}

\* each field's verdict: "" when it passes, else the message of its first error
FilenameError(v) ==
    IF Len(v) < 1 THEN "String should have at least 1 character"
    ELSE IF Len(v) > FILENAME_MAX_LENGTH THEN "String should have at most 255 characters"
    ELSE IF Strip(v) = "" THEN "Filename cannot be empty"
    ELSE IF \E c \in DangerousChars : Contains(v, c)
         THEN "Filename contains invalid character"
    ELSE ""

ContentTypeError(v) ==
    IF v = "" \/ ~StartsWith(v, "image/") THEN "Only image files are allowed"
    ELSE IF v \notin AllowedTypes THEN "Supported image types"
    ELSE ""

\* variant: the size is not validated
FileSizeUnchecked(v) == ""

FileSizeError(v) ==
    IF v <= 0 THEN "Input should be greater than 0"
    ELSE IF v > MAX_SIZE THEN "File size cannot exceed 10485760 bytes (10MB)"
    ELSE ""

\* UploadService.validate_upload_file(file, file_content): the validated
\* fields, or a 400 carrying the first error of the first failing field
ValidateUploadFile(file) ==
    LET errors == <<FilenameError(file.filename), ContentTypeError(file.content_type),
                    FileSizeError(file.size)>>
        failed == {i \in 1..3 : errors[i] # ""}
    IN  IF failed = {}
        THEN [ok |-> TRUE, filename |-> Strip(file.filename),
              content_type |-> file.content_type, file_size |-> file.size]
        ELSE Raise(HTTPException(400, errors[CHOOSE i \in failed : \A j \in failed : i <= j],
                                 ""))

\* ---- S3Service ----
\* generate_unique_filename(original_filename): the n-th key of the run; the
\* timestamp and the uuid4 prefix are what makes the n-th key differ from the
\* ones before it
GenerateUniqueFilename(original_filename, time, n) ==
    S3_TEMP_FOLDER \o "/" \o ToString(time) \o "_" \o ToString(n)
        \o SplitExt(original_filename)

\* what the bucket does to one upload: "ok", or the first call that fails
S3Faults == {"ok", "head_bucket", "upload_fileobj", "generate_presigned_url"}

S3Call(op, key) == [op |-> op, key |-> key]

\* variant: the key is returned although the transfer failed
S3UploadFileKeyOnFailure(objs, original_filename, time, n, fault) ==
    IF fault = "head_bucket"
    THEN [key |-> {}, objects |-> objs, nextKey |-> n,
          s3 |-> <<S3Call("head_bucket", "")>>]
    ELSE LET file_key == GenerateUniqueFilename(original_filename, time, n + 1) IN
         [key |-> {file_key},
          objects |-> IF fault = "upload_fileobj" THEN objs ELSE objs \cup {file_key},
          nextKey |-> n + 1,
          s3 |-> <<S3Call("head_bucket", ""), S3Call("put_object", file_key)>>]

\* S3Service.upload_file: the key on success, None (the empty set) when the
\* bucket cannot be ensured or the transfer fails
S3UploadFile(objs, original_filename, time, n, fault) ==
    IF fault = "head_bucket"
    THEN [key |-> {}, objects |-> objs, nextKey |-> n,
          s3 |-> <<S3Call("head_bucket", "")>>]
    ELSE LET file_key == GenerateUniqueFilename(original_filename, time, n + 1) IN
         IF fault = "upload_fileobj"
         THEN [key |-> {}, objects |-> objs, nextKey |-> n + 1,
               s3 |-> <<S3Call("head_bucket", ""), S3Call("put_object", file_key)>>]
         ELSE [key |-> {file_key}, objects |-> objs \cup {file_key}, nextKey |-> n + 1,
               s3 |-> <<S3Call("head_bucket", ""), S3Call("put_object", file_key)>>]

\* S3Service.generate_presigned_url(file_key, expiration): the URL, or None
GeneratePresignedUrl(file_key, expiration, fault) ==
    IF fault = "generate_presigned_url" THEN {}
    ELSE {"https://s3/" \o file_key \o "?X-Amz-Expires=" \o ToString(expiration)}

UploadDone(response, objs, n, s3) ==
    [resp |-> response, objects |-> objs, nextKey |-> n, s3 |-> s3]

\* UploadService.process_file_upload(file, username); file.read() of the
\* received upload is taken to succeed
ProcessFileUpload(file, objs, time, n, fault) ==
    IF file.filename = ""
    THEN UploadDone(ExceptionResponse(HTTPException(400, "No file provided", "")),
                    objs, n, <<>>)
    ELSE LET v == ValidateUploadFile(file) IN
    IF ~v.ok THEN UploadDone(ExceptionResponse(v.exc), objs, n, <<>>)
    ELSE LET up == S3UploadFile(objs, v.filename, time, n, fault) IN
    IF up.key = {}
    THEN UploadDone(ExceptionResponse(HTTPException(500, "Failed to upload file to S3", "")),
                    up.objects, up.nextKey, up.s3)
    ELSE LET file_key == CHOOSE k \in up.key : TRUE
             url      == GeneratePresignedUrl(file_key, S3_PRESIGNED_URL_EXPIRATION, fault)
             s3       == up.s3 \o <<S3Call("sign_url", file_key)>>
         IN  IF url = {}
             THEN UploadDone(ExceptionResponse(
                                 HTTPException(500, "Failed to generate file URL", "")),
                             up.objects, up.nextKey, s3)
             ELSE UploadDone(JsonResponse(201,
                      [url |-> CHOOSE u \in url : TRUE, file_key |-> file_key,
                       original_filename |-> v.filename, content_type |-> v.content_type,
                       file_size |-> v.file_size,
                       expires_in |-> S3_PRESIGNED_URL_EXPIRATION]),
                      up.objects, up.nextKey, s3)

\* variant: a failed signing is tried once more
GenerateFileUrlRetry(file_key, objs, n, fault) ==
    LET url == GeneratePresignedUrl(file_key, S3_PRESIGNED_URL_EXPIRATION, fault)
        s3  == <<S3Call("sign_url", file_key)>>
    IN  IF url = {}
        THEN UploadDone(ExceptionResponse(
                 HTTPException(404, "File not found or failed to generate URL", "")),
                 objs, n, s3 \o s3)
        ELSE UploadDone(JsonResponse(200,
                 [url |-> CHOOSE u \in url : TRUE, file_key |-> file_key,
                  expires_in |-> S3_PRESIGNED_URL_EXPIRATION]), objs, n, s3)

\* UploadService.generate_file_url(file_key, username): signing asks the bucket
\* nothing, so any key gets a URL
GenerateFileUrl(file_key, objs, n, fault) ==
    LET url == GeneratePresignedUrl(file_key, S3_PRESIGNED_URL_EXPIRATION, fault)
        s3  == <<S3Call("sign_url", file_key)>>
    IN  IF url = {}
        THEN UploadDone(ExceptionResponse(
                 HTTPException(404, "File not found or failed to generate URL", "")),
                 objs, n, s3)
        ELSE UploadDone(JsonResponse(200,
                 [url |-> CHOOSE u \in url : TRUE, file_key |-> file_key,
                  expires_in |-> S3_PRESIGNED_URL_EXPIRATION]), objs, n, s3)

\* POST /upload/image and GET /upload/url/{file_key}: the controllers hand an
\* HTTPException of the service on unchanged
UploadImage(file, objs, time, n, fault) == ProcessFileUpload(file, objs, time, n, fault)
GetImageUrl(file_key, objs, n, fault)   == GenerateFileUrl(file_key, objs, n, fault)

\* ---- what a client can upload ----
File(filename, content_type, size) ==
    [filename |-> filename, content_type |-> content_type, size |-> size]

GoodFiles ==
    {File("cat.jpg", "image/jpeg", 1), File(" dog.png ", "image/png", MAX_SIZE)}

BadFiles ==
    {File("notes.txt", "text/plain", 1), File("scan.tiff", "image/tiff", 1),
     File("cat.jpg", "", 1), File("empty.jpg", "image/jpeg", 0),
     File("large.jpg", "image/jpeg", MAX_SIZE + 1),
     File("", "image/jpeg", 1), File("  ", "image/jpeg", 1),
     File("../cat.jpg", "image/jpeg", 1), File("a\\b.png", "image/png", 1),
     File("what?.gif", "image/gif", 1)}

\* keys asked of GET /upload/url: one that an upload may have produced and one
\* that none did
UrlKeys == {GenerateUniqueFilename("cat.jpg", 0, 1), "uploads/nonexistent.jpg"}

(***************************************************************************)
(* SpecApi: one request at a time                                          *)
(***************************************************************************)
\* bodies of PUT /users/{user_id}; the last one names a field UserUpdate lacks
UpdatePayloads ==
    {[username |-> "bob"], [username |-> "alice"], [email |-> "alice@example.com"],
     [is_active |-> FALSE], [is_active |-> TRUE, is_superuser |-> TRUE]}

UserCreates ==
    [username : {"alice", "bob"}, email : ApiEmails, password : {"password123"},
     gender : {"other"}, full_name : {None}, is_superuser : BOOLEAN]

\* skip and limit of GET /users/: the defaults, a one-row page and the limit 0
Pages == {<<0, 100>>, <<1, 1>>, <<1, 0>>}

\* the server answers: the request, the tables as it found them, the response,
\* whether the handler body ran, and the calls made on its behalf
Respond(op, req, ran, response, s, objs, n, calls, s3) ==
    /\ store' = s
    /\ objects' = objs
    /\ nextKey' = n
    /\ apiRes' = [op |-> op, req |-> req, before |-> store, stored |-> objects,
                  resp |-> response, ran |-> ran, calls |-> calls, s3 |-> s3]
    /\ UNCHANGED <<now, tok, issue, authRes, pending, issued, mwVars, jobVars>>

\* a route without dependencies on the caller
Public(op, req, out) ==
    Respond(op, req, TRUE, out.resp, out.store, objects, nextKey, out.calls, <<>>)

\* a users route behind Depends(get_current_active_user): a failed dependency
\* is answered by FastAPI and the body is skipped
Protected(op, req, dep, out) ==
    IF dep.ok
    THEN Respond(op, req, TRUE, out.resp, out.store, objects, nextKey,
                 DependencyCalls(req.authorization, now) \o out.calls, <<>>)
    ELSE Respond(op, req, FALSE, ExceptionResponse(dep.exc), store, objects, nextKey,
                 DependencyCalls(req.authorization, now), <<>>)

\* an upload route behind the same dependency
ProtectedUpload(op, req, dep, out) ==
    IF dep.ok
    THEN /\ out.nextKey <= MaxUploads
         /\ Respond(op, req, TRUE, out.resp, store, out.objects, out.nextKey,
                    DependencyCalls(req.authorization, now), out.s3)
    ELSE Respond(op, req, FALSE, ExceptionResponse(dep.exc), store, objects, nextKey,
                 DependencyCalls(req.authorization, now), <<>>)

ServeLogin(username, password) ==
    /\ apiRes = NoResult
    /\ Public("login_for_access_token", [username |-> username, password |-> password],
              LoginForAccessToken(store, username, password, now))

ServeRegister(username, password) ==
    /\ apiRes = NoResult
    /\ Public("register", [username |-> username, password |-> password],
              Register(store, username, password, now))

ServeCreateUser(user_in) ==
    /\ apiRes = NoResult
    /\ Public("create_user", user_in, CreateUser(store, user_in))

ServeGetUsers(authorization, page) ==
    /\ apiRes = NoResult
    /\ LET dep == SolveDependencies(authorization, store, now) IN
       Protected("get_users",
                 [authorization |-> authorization, skip |-> page[1], limit |-> page[2]],
                 dep, GetUsers(store, page[1], page[2]))

ServeGetCurrentUserInfo(authorization) ==
    /\ apiRes = NoResult
    /\ LET dep == SolveDependencies(authorization, store, now) IN
       Protected("get_current_user_info", [authorization |-> authorization],
                 dep, GetCurrentUserInfo(store, dep.user))

ServeGetUser(authorization, user_id) ==
    /\ apiRes = NoResult
    /\ LET dep == SolveDependencies(authorization, store, now) IN
       Protected("get_user", [authorization |-> authorization, user_id |-> user_id],
                 dep, GetUser(store, user_id))

ServeUpdateUser(authorization, user_id, obj_in) ==
    /\ apiRes = NoResult
    /\ LET dep == SolveDependencies(authorization, store, now) IN
       Protected("update_user",
                 [authorization |-> authorization, user_id |-> user_id, obj_in |-> obj_in],
                 dep, UpdateUser(store, user_id, obj_in, dep.user))

ServeDeleteUser(authorization, user_id) ==
    /\ apiRes = NoResult
    /\ LET dep == SolveDependencies(authorization, store, now) IN
       Protected("delete_user", [authorization |-> authorization, user_id |-> user_id],
                 dep, DeleteUser(store, user_id, dep.user))

ServeUploadImage(authorization, file, fault) ==
    /\ apiRes = NoResult
    /\ LET dep == SolveDependencies(authorization, store, now) IN
       ProtectedUpload("upload_image",
                       [authorization |-> authorization, file |-> file, fault |-> fault],
                       dep, UploadImage(file, objects, now, nextKey, fault))

ServeGetImageUrl(authorization, file_key, fault) ==
    /\ apiRes = NoResult
    /\ LET dep == SolveDependencies(authorization, store, now) IN
       ProtectedUpload("get_image_url",
                       [authorization |-> authorization, file_key |-> file_key,
                        fault |-> fault],
                       dep, GetImageUrl(file_key, objects, nextKey, fault))

\* the response has left the server; the next request can be served
Deliver ==
    /\ apiRes # NoResult
    /\ apiRes' = NoResult
    /\ UNCHANGED <<store, objects, nextKey, now, tok, issue, authRes, pending, issued, mwVars, jobVars>>

InitApi ==
    /\ InitMwIdle
    /\ InitApiIdle
    /\ InitJobsIdle
    /\ now = 0
    /\ tok = Garbage
    /\ issue = NotIssued
    /\ authRes = NoResult
    /\ store = SeedStore

NextApi ==
    \/ \E u \in ApiNames, p \in ApiPasswords : ServeLogin(u, p)
    \/ \E u \in ApiNames : ServeRegister(u, "password123")
    \/ \E user_in \in UserCreates : ServeCreateUser(user_in)
    \/ \E a \in Credentials, page \in Pages : ServeGetUsers(a, page)
    \/ \E a \in Credentials : ServeGetCurrentUserInfo(a)
    \/ \E a \in Credentials, id \in PathIds : ServeGetUser(a, id)
    \/ \E a \in Credentials, id \in PathIds, obj_in \in UpdatePayloads :
           ServeUpdateUser(a, id, obj_in)
    \/ \E a \in Credentials, id \in PathIds : ServeDeleteUser(a, id)
    \/ \E a \in Credentials, file \in GoodFiles, fault \in S3Faults :
           ServeUploadImage(a, file, fault)
    \/ \E a \in Credentials, file \in BadFiles : ServeUploadImage(a, file, "ok")
    \/ \E a \in Credentials, k \in UrlKeys, fault \in {"ok", "generate_presigned_url"} :
           ServeGetImageUrl(a, k, fault)
    \/ Deliver

SpecApi == InitApi /\ [][NextApi]_vars

(***************************************************************************)
(* SpecRace: requests that write the users table, interleaved at their     *)
(* database round trips                                                    *)
(***************************************************************************)
\* requests that may be between their reads and their write at once
MaxInFlight == 2

\* the keyword arguments of the two callers of UserService.create_user
CreateUserArgs(user_in) ==
    [db |-> "db", username |-> user_in.username, email |-> user_in.email,
     password |-> user_in.password, gender |-> user_in.gender,
     full_name |-> user_in.full_name]
RegisterArgs(username, password) ==
    [db |-> "db", username |-> username, email |-> username \o "@example.com",
     password |-> password]

\* a request completed; all SpecRace keeps of it is the route and the status
Completed(op, status) == apiRes' = [op |-> op, status |-> status]

\* update_user passed its permission check and awaits user_service.update
BeginUpdateUser(authorization, user_id, obj_in) ==
    /\ Cardinality(pending) < MaxInFlight
    /\ LET dep == SolveDependencies(authorization, store, now) IN
       /\ dep.ok
       /\ UpdateUserCheck(store, user_id, dep.user).ok
    /\ pending' = pending \cup {[op |-> "update_user", user_id |-> user_id,
                                 obj_in |-> obj_in]}
    /\ UNCHANGED <<store, objects, nextKey, apiRes, now, tok, issue, authRes, issued, mwVars, jobVars>>

\* user_service.update runs against the table as it is by now
CommitUpdateUser(p) ==
    /\ p.op = "update_user"
    /\ LET out == UpdateUserCommit(store, p.user_id, p.obj_in) IN
       /\ store' = out.store
       /\ Completed("update_user", out.resp.status)
    /\ pending' = pending \ {p}
    /\ UNCHANGED <<objects, nextKey, now, tok, issue, authRes, issued, mwVars, jobVars>>

\* UserService.create_user found neither the email nor the username and awaits
\* user_repository.create_user
BeginCreateUser(op, kwargs) ==
    /\ Cardinality(pending) < MaxInFlight
    /\ UserServiceLookups(store, kwargs).ok
    /\ pending' = pending \cup {[op |-> op, kwargs |-> kwargs]}
    /\ UNCHANGED <<store, objects, nextKey, apiRes, now, tok, issue, authRes, issued, mwVars, jobVars>>

\* user_repository.create_user runs against the table as it is by now
CommitCreateUser(p) ==
    /\ p.op \in {"create_user", "register"}
    /\ LET r == UserRepositoryCreateUser(store, RepositoryArgs(p.kwargs)) IN
       /\ store' = IF r.ok THEN r.store ELSE store
       /\ Completed(p.op, IF r.ok THEN (IF p.op = "register" THEN 200 ELSE 201) ELSE 500)
    /\ pending' = pending \ {p}
    /\ UNCHANGED <<objects, nextKey, now, tok, issue, authRes, issued, mwVars, jobVars>>

\* create_user or register ends in its lookups, or before them
RefuseCreateUser(op, kwargs) ==
    /\ ~UserServiceLookups(store, kwargs).ok
    /\ Completed(op, IF UserServiceLookups(store, kwargs).exc.type = "ValueError"
                     THEN 400 ELSE 500)
    /\ UNCHANGED <<store, pending, objects, nextKey, now, tok, issue, authRes, issued, mwVars, jobVars>>

\* a superuser deletes a row while other requests are in flight
RaceDeleteUser(authorization, user_id) ==
    LET dep == SolveDependencies(authorization, store, now) IN
    /\ dep.ok
    /\ LET out == DeleteUser(store, user_id, dep.user) IN
       /\ out.resp.status = 200
       /\ store' = out.store
       /\ Completed("delete_user", 200)
    /\ UNCHANGED <<pending, objects, nextKey, now, tok, issue, authRes, issued, mwVars, jobVars>>

NextRace ==
    \/ \E a \in Credentials, id \in PathIds, obj_in \in UpdatePayloads :
           BeginUpdateUser(a, id, obj_in)
    \/ \E p \in pending : CommitUpdateUser(p)
    \/ \E user_in \in UserCreates : BeginCreateUser("create_user", CreateUserArgs(user_in))
    \/ \E u \in ApiNames : BeginCreateUser("register", RegisterArgs(u, "password123"))
    \/ \E p \in pending : CommitCreateUser(p)
    \/ \E user_in \in UserCreates : RefuseCreateUser("create_user", CreateUserArgs(user_in))
    \/ \E u \in ApiNames : RefuseCreateUser("register", RegisterArgs(u, "password123"))
    \/ \E a \in Credentials, id \in PathIds : RaceDeleteUser(a, id)

SpecRace == InitApi /\ [][NextRace]_vars

(***************************************************************************)
(* SpecSession: clients that present the tokens they were handed           *)
(***************************************************************************)
\* the tokens a response hands out, each with the id of the row whose
\* username it carries
Handed(response, s) ==
    IF response.status = 200
    THEN {[token |-> response.data.access_token, id |-> u.id] :
             u \in GetByUsername(s, DecodeToken(response.data.access_token, now).payload.sub)}
    ELSE {}

\* Authorization headers made of tokens handed out so far
HeldCredentials == {Bearer(i.token) : i \in issued}

SessionRespond(op, req, ran, response, s, calls, handed) ==
    /\ store' = s
    /\ issued' = issued \cup handed
    /\ apiRes' = [op |-> op, req |-> req, before |-> store, stored |-> objects,
                  resp |-> response, ran |-> ran, calls |-> calls, s3 |-> <<>>]
    /\ UNCHANGED <<objects, nextKey, now, tok, issue, authRes, pending, mwVars, jobVars>>

\* a users route behind Depends(get_current_active_user)
SessionProtected(op, req, dep, out) ==
    IF dep.ok
    THEN SessionRespond(op, req, TRUE, out.resp, out.store,
                        DependencyCalls(req.authorization, now) \o out.calls, {})
    ELSE SessionRespond(op, req, FALSE, ExceptionResponse(dep.exc), store,
                        DependencyCalls(req.authorization, now), {})

SessionLogin(username, password) ==
    /\ apiRes = NoResult
    /\ LET out == LoginForAccessToken(store, username, password, now) IN
       SessionRespond("login_for_access_token",
                      [username |-> username, password |-> password],
                      TRUE, out.resp, out.store, out.calls, Handed(out.resp, out.store))

SessionRegister(username, password) ==
    /\ apiRes = NoResult
    /\ LET out == Register(store, username, password, now) IN
       SessionRespond("register", [username |-> username, password |-> password],
                      TRUE, out.resp, out.store, out.calls, Handed(out.resp, out.store))

SessionGetCurrentUserInfo(authorization) ==
    /\ apiRes = NoResult
    /\ LET dep == SolveDependencies(authorization, store, now) IN
       SessionProtected("get_current_user_info", [authorization |-> authorization],
                        dep, GetCurrentUserInfo(store, dep.user))

SessionUpdateUser(authorization, user_id, obj_in) ==
    /\ apiRes = NoResult
    /\ LET dep == SolveDependencies(authorization, store, now) IN
       SessionProtected("update_user",
                        [authorization |-> authorization, user_id |-> user_id,
                         obj_in |-> obj_in],
                        dep, UpdateUser(store, user_id, obj_in, dep.user))

SessionDeleteUser(authorization, user_id) ==
    /\ apiRes = NoResult
    /\ LET dep == SolveDependencies(authorization, store, now) IN
       SessionProtected("delete_user",
                        [authorization |-> authorization, user_id |-> user_id],
                        dep, DeleteUser(store, user_id, dep.user))

\* BaseRepository.soft_delete(db, id): the row, if there is one, is marked inactive
SoftDelete(s, id) ==
    {IF u \in GetById(s, id) THEN [u EXCEPT !.is_active = FALSE] ELSE u : u \in s}

\* user_service.soft_delete called from inside the application (no route does)
CallSoftDelete(id) ==
    /\ apiRes = NoResult
    /\ store' = SoftDelete(store, id)
    /\ store' # store
    /\ UNCHANGED <<issued, apiRes, objects, nextKey, now, tok, issue, authRes, pending,
                   mwVars, jobVars>>

\* the bodies a session sends to PUT /users/{user_id}
SessionPayloads ==
    {[username |-> "bob"], [username |-> "alice"], [is_active |-> FALSE],
     [is_active |-> TRUE, is_superuser |-> TRUE]}

NextSession ==
    \/ \E u \in ApiNames, p \in ApiPasswords : SessionLogin(u, p)
    \/ \E u \in ApiNames : SessionRegister(u, "password123")
    \/ \E a \in HeldCredentials : SessionGetCurrentUserInfo(a)
    \/ \E a \in HeldCredentials, id \in PathIds, obj_in \in SessionPayloads :
           SessionUpdateUser(a, id, obj_in)
    \/ \E a \in HeldCredentials, id \in PathIds : SessionDeleteUser(a, id)
    \/ \E id \in PathIds : CallSoftDelete(id)
    \/ Deliver

SpecSession == InitApi /\ [][NextSession]_vars

(***************************************************************************)
(* app/workers/tasks.py: process_data under Celery's retry protocol        *)
(***************************************************************************)
\* @celery_app.task(name="process_data", bind=True, max_retries=3)
MAX_RETRIES == 3

\* variant: the delay grows by a minute per retry
RetryInLinear(retries) == 60 * (retries + 1)

\* retry_in = 60 * (2 ** self.request.retries)
RetryIn(retries) == 60 * (2 ^ retries)

\* self.retry(exc=exc, countdown=...): Celery re-sends the task with
\* retries + 1 and raises Retry, unless that count exceeds max_retries, in which
\* case the exception handed in is raised
TaskRetry(request_retries, max_retries, e, countdown) ==
    IF request_retries + 1 > max_retries
    THEN [state |-> "FAILURE", retries |-> request_retries, countdown |-> {}, error |-> e]
    ELSE [state |-> "RETRY", retries |-> request_retries + 1, countdown |-> {countdown},
          error |-> None]

\* process_data(self, data_id, options) run with self.request.retries =
\* request_retries; `e` is the exception its body raises, None when it raises none
ProcessData(request_retries, e) ==
    IF e = None
    THEN [state |-> "SUCCESS", retries |-> request_retries, countdown |-> {}, error |-> None]
    ELSE TaskRetry(request_retries, MAX_RETRIES, e, RetryIn(request_retries))

\* process_data.delay(...): the task is put on the queue
SendTask(t) ==
    /\ tasks[t].state = "NONE"
    /\ tasks' = [tasks EXCEPT ![t].state = "PENDING"]
    /\ UNCHANGED <<sched, mwVars, authVars, apiVars>>

\* a worker takes the task off the queue, once its countdown is over, and runs it
RunTask(t, e) ==
    /\ tasks[t].state \in {"PENDING", "RETRY"}
    /\ LET out == ProcessData(tasks[t].retries, e) IN
       tasks' = [tasks EXCEPT ![t] =
                    [state |-> out.state, retries |-> out.retries,
                     countdowns |-> IF out.countdown = {} THEN @.countdowns
                                    ELSE Append(@.countdowns,
                                                CHOOSE c \in out.countdown : TRUE),
                     error |-> out.error]]
    /\ UNCHANGED <<sched, mwVars, authVars, apiVars>>

(***************************************************************************)
(* app/jobs/scheduler.py over APScheduler's BackgroundScheduler            *)
(***************************************************************************)
\* start_scheduler calls in one run
MaxCalls == 3

\* the ids of configure_jobs, in the order of its add_job calls
JobIds == <<"cleanup_old_data", "generate_hourly_report", "check_system_health">>

\* what may go wrong in one start_scheduler call: nothing, the second add_job
\* raises, scheduler.start() raises before it has taken over the pending jobs
SchedulerFaults == {"ok", "add_job", "start"}

\* scheduler.add_job(..., id=id, replace_existing=True): a stopped scheduler
\* queues the job until it is started, a running one writes it to the job
\* store, over a job with the same id
AddJob(s, id) ==
    IF ~s.running THEN [ok |-> TRUE, sched |-> [s EXCEPT !.pending = Append(@, id)]]
    ELSE [ok |-> TRUE, sched |-> [s EXCEPT !.store = @ \cup {id}]]

\* configure_jobs(): the three add_job calls in turn
ConfigureJobs(s, fault) ==
    LET a1 == AddJob(s, JobIds[1]) IN
    IF ~a1.ok THEN a1
    ELSE IF fault = "add_job" THEN [ok |-> FALSE, error |-> "OperationalError", sched |-> a1.sched]
    ELSE LET a2 == AddJob(a1.sched, JobIds[2]) IN
    IF ~a2.ok THEN a2
    ELSE AddJob(a2.sched, JobIds[3])

\* scheduler.start(): refused when running; else every pending job goes to the
\* job store (replacing a job of the same id) and the scheduler runs
SchedulerStart(s, fault) ==
    IF s.running THEN [ok |-> FALSE, error |-> "SchedulerAlreadyRunningError", sched |-> s]
    ELSE IF fault = "start" THEN [ok |-> FALSE, error |-> "OperationalError", sched |-> s]
    ELSE [ok |-> TRUE,
          sched |-> [s EXCEPT !.running = TRUE,
                              !.store = @ \cup {s.pending[i] : i \in DOMAIN s.pending},
                              !.pending = <<>>]]

\* scheduler.shutdown(): refused when not running
SchedulerShutdown(s) ==
    IF ~s.running THEN [ok |-> FALSE, error |-> "SchedulerNotRunningError", sched |-> s]
    ELSE [ok |-> TRUE, sched |-> [s EXCEPT !.running = FALSE]]

\* scheduler.get_jobs(): the pending jobs of a stopped scheduler, the job store
\* of a running one (here by id only)
RECURSIVE SetToSeq(_)
SetToSeq(ids) ==
    IF ids = {} THEN <<>>
    ELSE LET id == CHOOSE x \in ids : TRUE IN <<id>> \o SetToSeq(ids \ {id})
GetJobs(s) == IF s.running THEN SetToSeq(s.store) ELSE s.pending

\* the except block of start_scheduler: the error is logged, nothing is raised
Logged(r) == [r.sched EXCEPT !.errors = Append(@, r.error)]

\* variant: scheduler.start() is called whatever scheduler.running says
StartSchedulerUnguarded(s, fault) ==
    IF s.testing THEN s
    ELSE LET c == ConfigureJobs(s, fault) IN
         IF ~c.ok THEN Logged(c)
         ELSE LET st == SchedulerStart(c.sched, fault) IN
              IF ~st.ok THEN Logged(st) ELSE st.sched

\* start_scheduler()
StartScheduler(s, fault) ==
    IF s.testing THEN s
    ELSE LET c == ConfigureJobs(s, fault) IN
         IF ~c.ok THEN Logged(c)
         ELSE IF ~c.sched.running
         THEN LET st == SchedulerStart(c.sched, fault) IN
              IF ~st.ok THEN Logged(st) ELSE st.sched
         ELSE c.sched

\* stop_scheduler(): nothing catches what shutdown() raises
StopScheduler(s) ==
    IF s.running
    THEN LET sh == SchedulerShutdown(s) IN
         IF sh.ok THEN sh.sched ELSE [sh.sched EXCEPT !.raised = TRUE]
    ELSE s

CallStartScheduler(fault) ==
    /\ sched.calls < MaxCalls
    /\ sched' = [StartScheduler(sched, fault) EXCEPT !.calls = @ + 1]
    /\ UNCHANGED <<tasks, mwVars, authVars, apiVars>>

CallStopScheduler ==
    /\ sched' = StopScheduler(sched)
    /\ sched' # sched
    /\ UNCHANGED <<tasks, mwVars, authVars, apiVars>>

InitJobs ==
    /\ InitMwIdle /\ InitAuthIdle /\ InitApiIdle
    /\ tasks = [t \in TaskIds |-> NewTask]
    /\ sched \in {NewScheduler(testing) : testing \in BOOLEAN}

NextJobs ==
    \/ \E t \in TaskIds : SendTask(t)
    \/ \E t \in TaskIds, e \in {None} \cup Errors : RunTask(t, e)
    \/ \E fault \in SchedulerFaults : CallStartScheduler(fault)
    \/ CallStopScheduler

SpecJobs == InitJobs /\ [][NextJobs]_vars

(***************************************************************************)
(* Requests served under SpecApi                                           *)
(***************************************************************************)
ProtectedOps ==
    {"get_users", "get_current_user_info", "get_user", "update_user", "delete_user",
     "upload_image", "get_image_url"}

\* the request served last went to a route behind get_current_active_user
ServedProtected == apiRes # NoResult /\ apiRes.op \in ProtectedOps

\* ... and carried the token issued for the row u of the users table
CalledBy(u) ==
    /\ ServedProtected
    /\ u \in apiRes.before
    /\ apiRes.req.authorization = Bearer(AccessTokenFor(u.username, 0))

Status == apiRes.resp.status

(***************************************************************************)
(* C11  get_current_active_user hands an active principal to the handler   *)
(* unchanged (the handler body runs, and /me answers with exactly that     *)
(* principal) and fails with 400 for an inactive one; in the failing case  *)
(* the handler body is not executed and nothing is changed.                *)
(***************************************************************************)
C11_ActiveOrBadRequest ==
    \A u \in (IF ServedProtected THEN apiRes.before ELSE {}) :
        CalledBy(u) =>
            IF u.is_active
            THEN /\ apiRes.ran
                 /\ apiRes.op = "get_current_user_info" =>
                        Status = 200 /\ apiRes.resp.data = UserResponse(u)
            ELSE /\ ~apiRes.ran
                 /\ Status = 400
                 /\ apiRes.resp.detail = "Inactive user"
                 /\ store = apiRes.before /\ objects = apiRes.stored

\* a deactivated user presents a valid token of their own and is turned away
C11_Witness ==
    \E u \in (IF ServedProtected THEN apiRes.before ELSE {}) :
        CalledBy(u) /\ ~u.is_active /\ Status = 400 /\ ~apiRes.ran

\* the handler of a protected route ran on behalf of the row u
HandledFor(u) == CalledBy(u) /\ apiRes.ran

\* the rows the path parameter of the request names
Target == GetById(apiRes.before, apiRes.req.user_id)

\* the users table after the update data was written to row t
Updated(t) == (apiRes.before \ {t}) \cup {SetAttrs(t, apiRes.req.obj_in)}

(***************************************************************************)
(* C12  As stated: update_user answers 403 and leaves the users table      *)
(* unchanged exactly when the caller is neither the target nor a           *)
(* superuser; a caller who is the target or a superuser has the update     *)
(* applied, and in particular a non-superuser updating their own record    *)
(* gets 200 (an update that would duplicate a username or an email aside). *)
(***************************************************************************)
C12_SelfOrSuperuserMayUpdate ==
    \A u \in (IF ServedProtected THEN apiRes.before ELSE {}) :
        (apiRes.op = "update_user" /\ HandledFor(u)) =>
            \A t \in Target :
                IF t.id = u.id \/ u.is_superuser
                THEN UniqueUsers(Updated(t)) => Status = 200 /\ store = Updated(t)
                ELSE Status = 403 /\ store = apiRes.before

(***************************************************************************)
(* C13  delete_user removes the target only for a caller with the          *)
(* superuser flag; every other caller, the target itself included, gets    *)
(* 403 and the users table is left as it was.                              *)
(***************************************************************************)
C13_OnlySuperuserDeletes ==
    /\ (apiRes # NoResult /\ apiRes.op = "delete_user" /\ ~apiRes.ran) =>
           store = apiRes.before
    /\ \A u \in (IF ServedProtected THEN apiRes.before ELSE {}) :
           (apiRes.op = "delete_user" /\ HandledFor(u)) =>
               \A t \in Target :
                   IF u.is_superuser
                   THEN Status = 200 /\ store = apiRes.before \ {t}
                   ELSE Status = 403 /\ store = apiRes.before

\* an ordinary user asks for their own row to be deleted and is refused
C13_Witness ==
    \E u \in (IF ServedProtected THEN apiRes.before ELSE {}) :
        /\ apiRes.op = "delete_user" /\ HandledFor(u)
        /\ ~u.is_superuser /\ u \in Target
        /\ Status = 403 /\ u \in store

ServedOp(op) == apiRes # NoResult /\ apiRes.op = op

\* the rows POST /auth/token may issue a token for
Admissible ==
    {u \in apiRes.before :
        /\ u.username = apiRes.req.username
        /\ u.hashed_password = GeneratePasswordHash(apiRes.req.password)
        /\ u.is_active}

\* the response carries a bearer token that decode_token reads back as `username`
BearerTokenFor(username) ==
    /\ apiRes.resp.data.token_type = "bearer"
    /\ LET d == DecodeToken(apiRes.resp.data.access_token, now)
       IN  d.ok /\ d.payload.sub = username

(***************************************************************************)
(* C14  POST /auth/token answers 200 with a bearer token whose sub is the  *)
(* principal's username if and only if a principal with that username      *)
(* exists, the password matches its hash and it is active; for an unknown  *)
(* user, a wrong password and an inactive user it answers 401 without a    *)
(* token.                                                                  *)
(***************************************************************************)
C14_TokenIffAuthenticatedAndActive ==
    ServedOp("login_for_access_token") =>
        /\ store = apiRes.before
        /\ IF Admissible # {}
           THEN Status = 200 /\ BearerTokenFor(apiRes.req.username)
           ELSE Status = 401 /\ apiRes.resp.data = EmptyDict

\* a deactivated user logs in with the right password and gets 401
C14_Witness ==
    /\ ServedOp("login_for_access_token")
    /\ \E u \in apiRes.before :
           /\ u.username = apiRes.req.username
           /\ u.hashed_password = GeneratePasswordHash(apiRes.req.password)
           /\ ~u.is_active
    /\ Status = 401

(***************************************************************************)
(* C15  As stated: POST /auth/register with a username no stored principal *)
(* uses creates that principal and answers 200 with a bearer token for it; *)
(* with a username already in the store it answers 400 and leaves the      *)
(* store unchanged.                                                        *)
(***************************************************************************)
C15_RegisterCreatesOrRejects ==
    ServedOp("register") =>
        IF GetByUsername(apiRes.before, apiRes.req.username) = {}
        THEN /\ Status = 200
             /\ BearerTokenFor(apiRes.req.username)
             /\ Cardinality(GetByUsername(store, apiRes.req.username)) = 1
             /\ apiRes.before \subseteq store
        ELSE Status = 400 /\ store = apiRes.before

(***************************************************************************)
(* C16  As stated: POST /users/ with a valid payload whose username and    *)
(* email are both unused stores a new principal and answers 201 with its   *)
(* data; with an email or a username already in the store it answers 400   *)
(* and stores nothing.                                                     *)
(***************************************************************************)
C16_CreateStoresOrRejects ==
    ServedOp("create_user") =>
        IF /\ GetByUsername(apiRes.before, apiRes.req.username) = {}
           /\ GetByEmail(apiRes.before, apiRes.req.email) = {}
        THEN /\ Status = 201
             /\ apiRes.resp.data.username = apiRes.req.username
             /\ apiRes.resp.data.email = apiRes.req.email
             /\ Cardinality(GetByUsername(store, apiRes.req.username)) = 1
             /\ apiRes.before \subseteq store
        ELSE Status = 400 /\ store = apiRes.before

(***************************************************************************)
(* C17  Whatever create_user, register and update_user requests are served *)
(* and however their database round trips interleave, no two principals in *)
(* the store share a username and no two share an email.                   *)
(***************************************************************************)
C17_UsernamesAndEmailsUnique ==
    \A u, v \in store : u # v => u.username # v.username /\ u.email # v.email

\* an update that passed its checks was refused at its commit, which would have
\* duplicated a username or an email, while another request was still in flight
C17_Witness ==
    /\ apiRes # NoResult /\ apiRes.op = "update_user" /\ apiRes.status = 500
    /\ Cardinality(store) = 2
    /\ store # SeedStore
    /\ pending # {}

(***************************************************************************)
(* C18  A protected operation (list users, get user, /me, update user,     *)
(* delete user, upload image, get image URL) called without a bearer token *)
(* is answered 401; its handler does not run, and neither the users table  *)
(* nor the bucket is read or written on its behalf.                        *)
(***************************************************************************)
C18_NoTokenNoAccess ==
    (ServedProtected /\ apiRes.req.authorization = NoBearer) =>
        /\ Status = 401
        /\ ~apiRes.ran
        /\ apiRes.calls = <<>> /\ apiRes.s3 = <<>>
        /\ store = apiRes.before /\ objects = apiRes.stored

\* a valid image is posted without credentials to a bucket that already holds one
C18_Witness ==
    /\ ServedOp("upload_image")
    /\ apiRes.req.authorization = NoBearer
    /\ apiRes.req.file \in GoodFiles
    /\ objects # {}
    /\ Status = 401

\* the file of the request is one the pipeline has to turn away
Rejectable(f) ==
    \/ f.content_type \notin AllowedTypes
    \/ f.size = 0
    \/ f.size > 10 * 1024 * 1024
    \/ Strip(f.filename) = ""
    \/ \E c \in DangerousChars : Contains(f.filename, c)

\* process_file_upload ran for the request served last
Uploaded == ServedOp("upload_image") /\ apiRes.ran

S3Ops == {apiRes.s3[i].op : i \in DOMAIN apiRes.s3}

CallsOf(op) == {i \in DOMAIN apiRes.s3 : apiRes.s3[i].op = op}

(***************************************************************************)
(* C20  For a file that passes validation process_file_upload puts the     *)
(* object under a newly generated key and then signs a URL for that same   *)
(* key; the descriptor it returns names the stored key and the URL signed  *)
(* for it, and no URL is signed for a key that was not stored successfully *)
(* before.                                                                 *)
(***************************************************************************)
C20_PutThenSignSameKey ==
    (Uploaded /\ ~Rejectable(apiRes.req.file)) =>
        /\ Status \in {201, 500}
        /\ apiRes.req.fault = "ok" => Status = 201
        /\ Cardinality(CallsOf("put_object")) <= 1
        /\ Cardinality(CallsOf("sign_url")) <= 1
        /\ \A i \in CallsOf("put_object") : apiRes.s3[i].key \notin apiRes.stored
        /\ \A j \in CallsOf("sign_url") :
               /\ apiRes.s3[j].key \in objects
               /\ \E i \in CallsOf("put_object") :
                      i < j /\ apiRes.s3[i].key = apiRes.s3[j].key
        /\ Status = 201 =>
               /\ apiRes.resp.data.file_key \in objects \ apiRes.stored
               /\ \E j \in CallsOf("sign_url") :
                      apiRes.s3[j].key = apiRes.resp.data.file_key
               /\ Contains(apiRes.resp.data.url, apiRes.resp.data.file_key)

\* a second image is stored next to the first and its descriptor comes back
C20_Witness ==
    /\ Uploaded
    /\ Status = 201
    /\ apiRes.stored # {}
    /\ apiRes.resp.data.file_key \in objects \ apiRes.stored

\* the request asked the bucket for something that failed
UpstreamFailed ==
    /\ apiRes # NoResult /\ apiRes.ran
    /\ \/ /\ apiRes.op = "upload_image"
          /\ ~Rejectable(apiRes.req.file)
          /\ apiRes.req.fault # "ok"
       \/ /\ apiRes.op = "get_image_url"
          /\ apiRes.req.fault = "generate_presigned_url"

\* no S3 call is made twice for one request
NoRetry ==
    \A i, j \in DOMAIN apiRes.s3 : apiRes.s3[i].op = apiRes.s3[j].op => i = j

(***************************************************************************)
(* C21 as stated: every failure of the bucket in the upload pipeline, the  *)
(* failed signing of generate_file_url included, is answered with a 5xx    *)
(* status, and the failed call is not made again within the request.       *)
(***************************************************************************)
C21_AsStated == UpstreamFailed => (Status >= 500 /\ NoRetry)

(***************************************************************************)
(* C21  A failure of the bucket in process_file_upload (the bucket check,  *)
(* the transfer or the signing) is answered 500; a failed signing in       *)
(* generate_file_url is answered 404 "File not found or failed to generate *)
(* URL"; in neither is the failed call made again within the request.      *)
(***************************************************************************)
C21_UpstreamFailureSurfaced ==
    UpstreamFailed =>
        /\ NoRetry
        /\ apiRes.op = "upload_image" =>
               /\ Status = 500
               /\ apiRes.resp.detail \in {"Failed to upload file to S3",
                                          "Failed to generate file URL"}
        /\ apiRes.op = "get_image_url" =>
               /\ Status = 404
               /\ apiRes.resp.detail = "File not found or failed to generate URL"
               /\ apiRes.s3 = <<S3Call("sign_url", apiRes.req.file_key)>>

\* the signing fails for a key that an earlier upload stored
C21_Witness ==
    /\ ServedOp("get_image_url") /\ apiRes.ran
    /\ apiRes.req.fault = "generate_presigned_url"
    /\ apiRes.req.file_key \in objects
    /\ Status = 404

(***************************************************************************)
(* Stages of LoggingMiddleware.dispatch for one request                    *)
(***************************************************************************)
\* START        dispatch was entered and has not resolved the id yet
\* IN_FLIGHT    the id is resolved and call_next(request) has not come back,
\*              or has come back and dispatch has not finished with it
\* COMPLETED    dispatch returned the response
\* FAILED       dispatch re-raised
LogStage(r) ==
    IF At(r, "logging", "enter") THEN "START"
    ELSE IF Downstream(r) \/ (loc[r] = "logging" /\ phase[r] \in {"ok", "exc"})
         THEN "IN_FLIGHT"
    ELSE IF ReturnedNormally(r) THEN "COMPLETED"
    ELSE IF Propagated(r) THEN "FAILED"
    ELSE "NONE"

StageSteps ==
    {<<"NONE", "START">>, <<"START", "IN_FLIGHT">>,
     <<"IN_FLIGHT", "COMPLETED">>, <<"IN_FLIGHT", "FAILED">>}

\* call_next(request) of LoggingMiddleware is invoked for r in this step
InvokesDownstream(r) ==
    /\ ~(loc[r] = Below("logging") /\ phase[r] = "enter")
    /\ loc'[r] = Below("logging") /\ phase'[r] = "enter"

\* the asyncio event loop runs every task that is ready
SpecLive == Init /\ [][Next]_vars /\ WF_vars(Next)

(***************************************************************************)
(* C22  Every request LoggingMiddleware handles goes through START, the    *)
(* resolution of its id, IN_FLIGHT and then exactly one of COMPLETED and   *)
(* FAILED, in that order; X-Request-ID and X-Process-Time are on the       *)
(* response in COMPLETED and in no other stage; call_next is invoked once  *)
(* per request, on the step from START to IN_FLIGHT.                       *)
(***************************************************************************)
C22_StagesInOrder ==
    /\ [][\A r \in Requests :
            /\ LogStage(r)' # LogStage(r) => <<LogStage(r), LogStage(r)'>> \in StageSteps
            /\ InvokesDownstream(r) <=>
                  (LogStage(r) = "START" /\ LogStage(r)' = "IN_FLIGHT")]_vars
    /\ [](\A r \in Requests :
            /\ LogStage(r) = "IN_FLIGHT" =>
                  /\ IsTruthy(rid[r])
                  /\ stateRid[r] = rid[r] /\ ctx[r] = rid[r]
            /\ LogStage(r) = "COMPLETED" =>
                  /\ resp[r].status # 0
                  /\ resp[r].xrid = rid[r] /\ resp[r].xptime
            /\ LogStage(r) # "COMPLETED" =>
                  resp[r].xrid = None /\ ~resp[r].xptime)
    /\ \A r \in Requests :
            (LogStage(r) = "START") ~> (LogStage(r) \in {"COMPLETED", "FAILED"})

\* one request completed with its headers while another one failed
C22_Witness ==
    \E r, q \in Requests :
        /\ LogStage(r) = "COMPLETED" /\ resp[r].xrid = rid[r] /\ resp[r].xptime
        /\ LogStage(q) = "FAILED" /\ resp[q] = NoResponse

(***************************************************************************)
(* set_trace_context_from_request over every header and every value of     *)
(* request.state.request_id                                                *)
(***************************************************************************)
\* what request.state.request_id may hold when the stack is entered
StateIds == {None, "", "state-1"}

InitTrace ==
    /\ InitAuthIdle /\ InitApiIdle /\ InitJobsIdle
    /\ loc = [r \in Requests |-> "client"]
    /\ phase = [r \in Requests |-> "idle"]
    /\ hdr = [r \in Requests |-> None]
    /\ stateRid \in [Requests -> StateIds]
    /\ ctx = [r \in Requests |-> None]
    /\ rid = [r \in Requests |-> None]
    /\ ctxBranch = [r \in Requests |-> None]
    /\ resp = [r \in Requests |-> NoResponse]
    /\ exc = [r \in Requests |-> None]
    /\ raised = [r \in Requests |-> None]
    /\ log = {}
    /\ nextId = 0

SpecTrace == InitTrace /\ [][Next]_vars

\* set_trace_context_from_request(request) returns for r in this step
TraceContextSet(r) == At(r, "logging", "enter") /\ ~At(r, "logging", "enter")'

\* the three places hold one id after the call
SameEverywhere(r) == stateRid'[r] = rid'[r] /\ ctx'[r] = rid'[r]

Fresh(r) == rid'[r] = GenerateRequestId(nextId') /\ nextId' = nextId + 1

(***************************************************************************)
(* C23 as stated: the inbound X-Request-ID header wins whenever it is      *)
(* there, then an id in request.state, then a new id; afterwards           *)
(* request.state, the context slot and the return value hold the same id.  *)
(***************************************************************************)
C23_AsStated ==
    [][\A r \in Requests : TraceContextSet(r) =>
          /\ SameEverywhere(r)
          /\ IF hdr[r] # None THEN rid'[r] = hdr[r]
             ELSE IF stateRid[r] # None THEN rid'[r] = stateRid[r]
             ELSE Fresh(r)]_vars

(***************************************************************************)
(* C23  set_trace_context_from_request takes a non-empty inbound           *)
(* X-Request-ID header, else a non-empty id in request.state, else a new   *)
(* id; an empty header and an empty state value count as absent.  After it *)
(* returns, request.state, the context slot and the return value hold the  *)
(* same, non-empty id.                                                     *)
(***************************************************************************)
C23_HeaderThenStateThenFresh ==
    [][\A r \in Requests : TraceContextSet(r) =>
          /\ SameEverywhere(r)
          /\ rid'[r] \notin {None, ""}
          /\ IF hdr[r] \notin {None, ""} THEN rid'[r] = hdr[r] /\ nextId' = nextId
             ELSE IF stateRid[r] \notin {None, ""}
                  THEN rid'[r] = stateRid[r] /\ nextId' = nextId
             ELSE Fresh(r)]_vars

\* an id found in request.state was taken because the header was empty
C23_Witness ==
    \E r \in Requests :
        /\ hdr[r] = "" /\ rid[r] = "state-1"
        /\ stateRid[r] = "state-1" /\ ctx[r] = "state-1"
        /\ Downstream(r)

(***************************************************************************)
(* C24  LoggingMiddleware runs before RequestContextMiddleware, so         *)
(* RequestContextMiddleware.dispatch finds request.state.request_id set    *)
(* and never takes its "No request_id available" branch.                   *)
(***************************************************************************)
C24_ContextFindsRequestId ==
    \A r \in Requests :
        /\ At(r, "context", "enter") => (IsTruthy(stateRid[r]) /\ rid[r] # None)
        /\ ctxBranch[r] # "no_id"

(***************************************************************************)
(* C25  A process_data run whose body fails is sent again with a countdown *)
(* of 60 * 2^k seconds, k the number of retries made before (60, 120 and   *)
(* 240 seconds); there are at most 3 retries, and when the run after the   *)
(* third retry fails the exception is raised and no fourth retry is        *)
(* scheduled.  A run whose body succeeds schedules no retry.               *)
(***************************************************************************)
C25_RetryBackoff ==
    /\ [](\A t \in TaskIds :
            /\ tasks[t].retries <= 3
            /\ Len(tasks[t].countdowns) = tasks[t].retries
            /\ \A k \in DOMAIN tasks[t].countdowns :
                  tasks[t].countdowns[k] = <<60, 120, 240>>[k]
            /\ tasks[t].state = "FAILURE" =>
                  /\ tasks[t].countdowns = <<60, 120, 240>>
                  /\ tasks[t].error \in Errors)
    /\ [][\A t \in TaskIds :
            /\ tasks'[t].state = "SUCCESS" => tasks'[t].countdowns = tasks[t].countdowns
            /\ tasks'[t].state = "RETRY" =>
                  Len(tasks'[t].countdowns) <= Len(tasks[t].countdowns) + 1]_vars

\* one task gave up after its third retry, another succeeded on its first retry
C25_Witness ==
    \E t, u \in TaskIds :
        /\ tasks[t].state = "FAILURE" /\ tasks[t].countdowns = <<60, 120, 240>>
        /\ tasks[u].state = "SUCCESS" /\ tasks[u].countdowns = <<60>>

\* an id is held more than once by the list
HasDuplicates(jobs) == \E i, j \in DOMAIN jobs : i # j /\ jobs[i] = jobs[j]

JobIdSet == {JobIds[i] : i \in DOMAIN JobIds}

\* what holds of start_scheduler and stop_scheduler whatever was called before
SchedulerGuards ==
    /\ "SchedulerAlreadyRunningError" \notin {sched.errors[i] : i \in DOMAIN sched.errors}
    /\ ~sched.raised
    /\ sched.testing => ~sched.running

(***************************************************************************)
(* C26 as stated: the scheduler is never started while running and shut    *)
(* down only when running, it is never started under TESTING=1, no error   *)
(* of start_scheduler reaches the caller, and after any number of          *)
(* start_scheduler calls the configured jobs are exactly cleanup_old_data, *)
(* generate_hourly_report and check_system_health, none of them twice.     *)
(***************************************************************************)
C26_AsStated ==
    /\ SchedulerGuards
    /\ sched.calls > 0 =>
          /\ {GetJobs(sched)[i] : i \in DOMAIN GetJobs(sched)} = JobIdSet
          /\ ~HasDuplicates(GetJobs(sched))

(***************************************************************************)
(* C26  The scheduler is never started while running and shut down only    *)
(* when running, it is never started under TESTING=1 (and then no job is   *)
(* configured), no error of start_scheduler reaches the caller, and the    *)
(* jobs of a running scheduler are exactly cleanup_old_data,               *)
(* generate_hourly_report and check_system_health, none of them twice;     *)
(* a stopped scheduler holds no job but these three.                       *)
(***************************************************************************)
C26_SchedulerIdempotent ==
    /\ SchedulerGuards
    /\ sched.running =>
          /\ {GetJobs(sched)[i] : i \in DOMAIN GetJobs(sched)} = JobIdSet
          /\ ~HasDuplicates(GetJobs(sched))
    /\ {GetJobs(sched)[i] : i \in DOMAIN GetJobs(sched)} \subseteq JobIdSet
    /\ sched.testing => (GetJobs(sched) = <<>> /\ sched.store = {})
    /\ Len(sched.errors) <= sched.calls

\* the scheduler runs again after a stop, a failed start and a further start
C26_Witness ==
    /\ sched.running
    /\ sched.calls = 3
    /\ sched.errors = <<"OperationalError">>
    /\ Len(GetJobs(sched)) = 3

(***************************************************************************)
(* C30  For every skip >= 0 and every limit GET /users/ accepts the        *)
(* listing is a well-formed page: at most limit items, page =              *)
(* floor(skip / limit) + 1, pages the smallest integer with pages * limit  *)
(* >= total; no accepted (skip, limit) makes the handler fail with an      *)
(* arithmetic error.                                                       *)
(***************************************************************************)
C30_WellFormedPage ==
    (ServedOp("get_users") /\ apiRes.ran /\ apiRes.req.skip >= 0) =>
        /\ Status = 200
        /\ Len(apiRes.resp.data.data) <= apiRes.req.limit
        /\ apiRes.resp.data.total = Cardinality(store)
        /\ apiRes.resp.data.page = (apiRes.req.skip \div apiRes.req.limit) + 1
        /\ apiRes.resp.data.pages * apiRes.req.limit >= apiRes.resp.data.total
        /\ (apiRes.resp.data.pages - 1) * apiRes.req.limit < apiRes.resp.data.total

\* ids of the rows that are superusers
Superusers(s) == {u.id : u \in {v \in s : v.is_superuser}}

(***************************************************************************)
(* C28  No HTTP operation (create user, register, login, update user),     *)
(* whoever calls it and whatever its payload says about is_superuser,      *)
(* makes a superuser of a row that was none or creates a row that is one;  *)
(* this holds in particular of callers that are no superusers.             *)
(***************************************************************************)
C28_NoPrivilegeEscalation ==
    [][Superusers(store') \subseteq Superusers(store)]_vars

\* alice, no superuser, asked to be made one; the request was served and she
\* is none
C28_Witness ==
    /\ ServedOp("update_user")
    /\ apiRes.req.authorization = Bearer(AccessTokenFor("alice", 0))
    /\ apiRes.req.user_id = "2"
    /\ "is_superuser" \in DOMAIN apiRes.req.obj_in
    /\ apiRes.ran
    /\ \E u \in store : u.id = 2 /\ u.username = "alice" /\ ~u.is_superuser

\* a protected operation was served to a client presenting a token
ServedWithToken ==
    /\ apiRes # NoResult
    /\ apiRes.op \in {"get_current_user_info", "update_user", "delete_user"}

\* the ids the presented token was handed out for
IssuedFor == {i.id : i \in {j \in issued : Bearer(j.token) = apiRes.req.authorization}}

\* the row get_current_user resolved the presented token to, if it resolved it
ResolvedTo ==
    LET t == CHOOSE x \in apiRes.req.authorization : TRUE
        u == GetCurrentUser(t, apiRes.before, now)
    IN  IF u.ok THEN {u.user.id} ELSE {}

(***************************************************************************)
(* C27  Over any sequence of register, login, update_user (changes of      *)
(* username included) and delete_user operations, get_current_user never   *)
(* resolves a token to a row with another id than the one the token was    *)
(* issued for.                                                             *)
(***************************************************************************)
C27_TokenBoundToPrincipal ==
    ServedWithToken => ResolvedTo \subseteq IssuedFor

(***************************************************************************)
(* C29  While the row a token was issued for has is_active false, every    *)
(* protected operation presented with that token is refused, tokens issued *)
(* before the deactivation included; once the row is deleted, the token is *)
(* refused with 401.                                                       *)
(***************************************************************************)
C29_DeactivatedOrDeletedRefused ==
    ServedWithToken =>
        \A i \in IssuedFor :
            LET row == {u \in apiRes.before : u.id = i} IN
            /\ (\E u \in row : ~u.is_active) => (~apiRes.ran /\ Status \in {400, 401})
            /\ row = {} => (~apiRes.ran /\ Status = 401)

====
